---- MODULE Spec2Model ----
(***************************************************************************)
(* A model of the chat-relay service: the WebSocket connection registry    *)
(* (app/websocket/connection_manager.py) with the per-channel handler of   *)
(* app/main.py, the JSON document store (app/storage/json_storage.py),     *)
(* the chat exchange of app/services/lm_studio_client.py and the retention *)
(* sweeper (periodic_cleanup in app/main.py).                              *)
(*                                                                         *)
(* All handlers are coroutines of one asyncio event loop: a handler runs   *)
(* without interruption from one await to the next, so every action below  *)
(* is the code between two awaits of one coroutine.                        *)
(***************************************************************************)
EXTENDS Integers, Sequences, FiniteSets, TLC

VARIABLES
    \* ---- connection registry and channel handlers
    active_connections, \* ConnectionManager.active_connections: cid -> list of channels
    ws_pc,              \* where each channel's websocket_endpoint coroutine stands
    ws_cid,             \* the conversation_id path parameter of each channel
    ws_frames,          \* number of inbound frames the channels have received
    pass,               \* the broadcast pass each handler is running (iterator state)
    joined,             \* the channels whose connect has registered them, in that order
    \* ---- document store
    conversations,      \* data/conversations.json: id -> record
    messages,           \* data/messages.json: conversation id -> list of records
    now,                \* the wall clock datetime.now() reads, in ticks
    uuids,              \* number of uuid4() values drawn so far
    chat,               \* the chat exchanges in flight (get_response coroutines)
    appended,           \* per stored conversation, the messages whose add_message returned True
    titled,             \* per stored conversation, the title last written with success
    cleaned,            \* deleted_count of the POST /cleanup whose response is being sent
    status,             \* the HTTP answer being sent: <<status code, whether a file write failed>>
    presets,            \* data/presets.json: id -> record
    issued,             \* the ids create_preset has returned, in order
    files,              \* per document, whether its file is there and parses
    \* ---- retention sweeper
    sw_pc,              \* where periodic_cleanup stands
    sw_timer,           \* hours left of its asyncio.sleep
    sw_raised           \* whether the store raised in its last cleanup run

regvars == <<active_connections, ws_pc, ws_cid, ws_frames, pass, joined>>

convvars == <<conversations, messages, uuids, chat, appended, titled>>

presetvars == <<presets, issued>>

sweepvars == <<sw_pc, sw_timer, sw_raised>>

cleanvars == <<cleaned>>

respvars == <<status>>

filevars == <<files>>

vars == <<active_connections, ws_pc, ws_cid, ws_frames, pass, joined,
          conversations, messages, now, uuids, chat, appended, titled, cleaned, status,
          presets, issued, files, sw_pc, sw_timer, sw_raised>>

\* what the handlers of the registry, and the callers of the conversation
\* store, leave alone
notreg == <<convvars, now, presetvars, sweepvars, cleanvars, respvars, filevars>>

notconv == <<regvars, presetvars, sweepvars, cleanvars, respvars, filevars>>

notclean == <<regvars, presetvars, sweepvars, respvars, filevars>>

notpreset == <<regvars, convvars, now, sweepvars, cleanvars, respvars, filevars>>

notsweep == <<regvars, presetvars, cleanvars, respvars, filevars, now, uuids, chat>>

notresp == <<regvars, presetvars, sweepvars, cleanvars, filevars, now, chat>>

----------------------------------------------------------------------------
\* Bounds of the model.

\* inbound frames (over all channels) before the model stops feeding the handlers
MaxFrames == 2

\* The websocket objects (channels) and the conversation ids they are opened for.
Channels == {"w1", "w2"}
RegIds == {"u1", "c2"}

\* conversation_id: str = None of get_active_connections_count; None and the
\* empty string are both falsy in `if conversation_id:`.
NoneId == ""

----------------------------------------------------------------------------
\* Sequence helpers (Python list operations).

Elems(s) == {s[i] : i \in 1..Len(s)}

\* `x in lst`
InList(x, s) == x \in Elems(s)

\* lst.remove(x): removes the first occurrence of x.
ListRemove(s, x) ==
    LET i == CHOOSE k \in 1..Len(s) : s[k] = x /\ \A j \in 1..(k-1) : s[j] # x
    IN  [k \in 1..(Len(s)-1) |-> IF k < i THEN s[k] ELSE s[k+1]]

Count(s, x) == Cardinality({i \in 1..Len(s) : s[i] = x})

----------------------------------------------------------------------------
\* ConnectionManager

\* connect() putting the channel at the head of the group's list
connect_front(ac, ws, cid) ==
    IF cid \in DOMAIN ac
    THEN [ac EXCEPT ![cid] = <<ws>> \o @]
    ELSE [c \in DOMAIN ac \cup {cid} |-> IF c = cid THEN <<ws>> ELSE ac[c]]

\* connect() registering the channel under every conversation id in use
connect_all(ac, ws, cid) ==
    [c \in DOMAIN ac \cup {cid} |-> IF c \in DOMAIN ac THEN Append(ac[c], ws) ELSE <<ws>>]

\* connect(): after accept(), create the group if absent and append.
connect(ac, ws, cid) ==
    IF cid \in DOMAIN ac
    THEN [ac EXCEPT ![cid] = Append(@, ws)]
    ELSE [c \in DOMAIN ac \cup {cid} |-> IF c = cid THEN <<ws>> ELSE ac[c]]

\* disconnect() with list.pop() in place of list.remove(websocket): the last
\* channel of the group goes, whichever channel was named.
disconnect_pop(ac, ws, cid) ==
    IF cid \in DOMAIN ac
    THEN LET l == IF InList(ws, ac[cid]) THEN SubSeq(ac[cid], 1, Len(ac[cid]) - 1) ELSE ac[cid]
         IN  IF l = <<>>
             THEN [c \in DOMAIN ac \ {cid} |-> ac[c]]
             ELSE [ac EXCEPT ![cid] = l]
    ELSE ac

\* disconnect() without "del self.active_connections[conversation_id]"
disconnect_keep(ac, ws, cid) ==
    IF cid \in DOMAIN ac
    THEN [ac EXCEPT ![cid] = IF InList(ws, @) THEN ListRemove(@, ws) ELSE @]
    ELSE ac

\* disconnect(): remove the channel; delete the group entry when it is empty.
disconnect(ac, ws, cid) ==
    IF cid \in DOMAIN ac
    THEN LET l == IF InList(ws, ac[cid]) THEN ListRemove(ac[cid], ws) ELSE ac[cid]
         IN  IF l = <<>>
             THEN [c \in DOMAIN ac \ {cid} |-> ac[c]]
             ELSE [ac EXCEPT ![cid] = l]
    ELSE ac

\* The clean-up loop of broadcast_to_conversation:
\* for connection in disconnected_connections: self.disconnect(connection, cid)
RECURSIVE disconnect_all(_, _, _)
disconnect_all(ac, conns, cid) ==
    IF conns = <<>> THEN ac
    ELSE disconnect_all(disconnect(ac, Head(conns), cid), Tail(conns), cid)

\* get_active_connections_count(conversation_id=None)
RECURSIVE SumLens(_, _)
SumLens(ac, ids) ==
    IF ids = {} THEN 0
    ELSE LET c == CHOOSE x \in ids : TRUE
         IN  Len(ac[c]) + SumLens(ac, ids \ {c})

get_active_connections_count(ac, cid) ==
    IF cid # NoneId
    THEN (IF cid \in DOMAIN ac THEN Len(ac[cid]) ELSE 0)
    ELSE SumLens(ac, DOMAIN ac)

----------------------------------------------------------------------------
\* A broadcast pass: `for connection in self.active_connections[cid]` is a list
\* iterator (the list object and an index) that lives across the awaits of
\* connection.send_json.
\*   active  the pass is between its start and its return
\*   idx     the iterator's index: elements already fetched
\*   live    the iterated list object is still the one the registry holds for
\*           cid (disconnect deletes the entry of an emptied list; a later
\*           connect makes a new list the iterator does not see)
\*   disc    disconnected_connections
\* and, recorded for the properties (not read by the code):
\*   tried   the channels send_json was called on, in order
\*   got     the channels whose send_json returned normally
\*   start   the members of the group when the pass started
\*   order   the group's list when the pass started
\*   changed the group's list was changed while the pass was running
\*   removed the channels removed from the group while the pass was running
\*   done    a pass of this handler has returned (and no new one has started)

NoPass == [active |-> FALSE, idx |-> 0, live |-> FALSE, disc |-> <<>>,
           tried |-> <<>>, got |-> {}, start |-> {}, order |-> <<>>,
           changed |-> FALSE, removed |-> {}, done |-> FALSE]

NewPass(ac, cid) ==
    [active |-> TRUE, idx |-> 0, live |-> TRUE, disc |-> <<>>,
     tried |-> <<>>, got |-> {}, start |-> Elems(ac[cid]), order |-> ac[cid],
     changed |-> FALSE, removed |-> {}, done |-> FALSE]

\* The list the iterator reads: the group's list, or the emptied detached one.
IterList(p, ac, cid) == IF p.live /\ cid \in DOMAIN ac THEN ac[cid] ELSE <<>>

\* list iterator __next__: there is a next element iff index < len(list).
HasNext(p, ac, cid) == p.idx < Len(IterList(p, ac, cid))

\* One iteration of the loop body: fetch the element at the index, advance,
\* await send_json; ok is whether the send returned normally.
IterStep(p, ac, cid, ok) ==
    LET c == IterList(p, ac, cid)[p.idx + 1]
    IN  [p EXCEPT !.idx = @ + 1,
                  !.tried = Append(@, c),
                  !.got = IF ok THEN @ \cup {c} ELSE @,
                  !.disc = IF ok THEN @ ELSE Append(@, c)]

\* What a change of the registry from ac to ac2 does to the passes that are
\* running: a pass whose group entry was deleted keeps iterating the detached
\* (empty) list, and the channels that left are recorded.
Members(ac, cid) == IF cid \in DOMAIN ac THEN Elems(ac[cid]) ELSE {}

GroupList(ac, cid) == IF cid \in DOMAIN ac THEN ac[cid] ELSE <<>>

Observe(p, h, ac, ac2) ==
    IF p.active
    THEN [p EXCEPT !.live = @ /\ ws_cid[h] \in DOMAIN ac2,
                   !.changed = @ \/ GroupList(ac, ws_cid[h]) # GroupList(ac2, ws_cid[h]),
                   !.removed = @ \cup (Members(ac, ws_cid[h]) \ Members(ac2, ws_cid[h]))]
    ELSE p

----------------------------------------------------------------------------
\* websocket_endpoint (app/main.py): one coroutine per channel.
\*   "new"      not yet connected
\*   "recv"     awaiting websocket.receive_json()
\*   "bc_user"  in the broadcast pass of the user's message
\*   "model"    awaiting lm_client.get_response()
\*   "bc_ai"    in the broadcast pass of the AI reply
\*   "gone"     awaiting receive_json() after a send of the streamed reply
\*              failed because the client went away
\*   "closed"   the handler has returned
\*   "crashed"  the handler has ended with an exception it does not handle

\* Where the handler goes when its pass returns.
AfterPass(pc) == IF pc = "bc_user" THEN "model" ELSE "recv"

\* Where the handler goes when an exception leaves broadcast_to_conversation:
\* the pass of the AI reply is inside "try ... except Exception", which sends
\* the error frame and loops; the pass of the user's message is not.
OnRaise(pc) == IF pc = "bc_user" THEN "crashed" ELSE "recv"

\* a channel whose client is there to take a frame
Alive(c) == ws_pc[c] \notin {"gone", "crashed", "closed"}

\* await send_json(...) outside any try
try_send_unguarded(ok) == [delivered |-> ok, escaped |-> ~ok]

\* "try: await send_json(...) except Exception: log": nothing escapes
try_send(ok) == [delivered |-> ok, escaped |-> FALSE]

\* Run handler h's pass p (of kind pc) up to its next await or to its return.
RunPass(h, p, pc, ok) ==
    LET cid == ws_cid[h] IN
    IF HasNext(p, active_connections, cid)
    THEN LET c == IterList(p, active_connections, cid)[p.idx + 1]
             o == try_send(ok /\ Alive(c))
         IN  /\ pass' = [pass EXCEPT ![h] =
                            IF o.escaped THEN NoPass
                            ELSE IterStep(p, active_connections, cid, o.delivered)]
             /\ ws_pc' = [ws_pc EXCEPT ![h] = IF o.escaped THEN OnRaise(pc) ELSE pc]
             /\ UNCHANGED active_connections
    ELSE LET ac2 == disconnect_all(active_connections, p.disc, cid)
         IN  /\ active_connections' = ac2
             /\ pass' = [g \in Channels |->
                           IF g = h
                           THEN [p EXCEPT !.active = FALSE, !.done = TRUE]
                           ELSE Observe(pass[g], g, active_connections, ac2)]
             /\ ws_pc' = [ws_pc EXCEPT ![h] = AfterPass(pc)]

\* broadcast_to_conversation iterating active_connections.setdefault(cid, []):
\* a conversation with no group is given an empty one
StartPass_setdefault(h, pc, ok) ==
    IF ws_cid[h] \in DOMAIN active_connections
    THEN RunPass(h, NewPass(active_connections, ws_cid[h]), pc, ok)
    ELSE /\ ws_pc' = [ws_pc EXCEPT ![h] = AfterPass(pc)]
         /\ pass' = [pass EXCEPT ![h] = NoPass]
         /\ active_connections' =
                [x \in DOMAIN active_connections \cup {ws_cid[h]} |->
                    IF x = ws_cid[h] THEN <<>> ELSE active_connections[x]]

\* broadcast_to_conversation called by handler h: nothing happens when the
\* conversation has no group.
StartPass(h, pc, ok) ==
    IF ws_cid[h] \in DOMAIN active_connections
    THEN RunPass(h, NewPass(active_connections, ws_cid[h]), pc, ok)
    ELSE /\ ws_pc' = [ws_pc EXCEPT ![h] = AfterPass(pc)]
         /\ pass' = [pass EXCEPT ![h] = NoPass]
         /\ UNCHANGED active_connections

\* await connection_manager.connect(websocket, conversation_id)
Connect(h, cid) ==
    /\ ws_pc[h] = "new"
    /\ LET ac2 == connect(active_connections, h, cid)
       IN  /\ active_connections' = ac2
           /\ pass' = [g \in Channels |-> Observe(pass[g], g, active_connections, ac2)]
    /\ ws_cid' = [ws_cid EXCEPT ![h] = cid]
    /\ ws_pc' = [ws_pc EXCEPT ![h] = "recv"]
    /\ joined' = Append(joined, h)
    /\ UNCHANGED ws_frames
    /\ UNCHANGED notreg

\* await websocket.accept() raises in connect(): nothing is registered, and the
\* exception leaves websocket_endpoint, whose try starts after connect.
AcceptFails(h) ==
    /\ ws_pc[h] = "new"
    /\ ws_pc' = [ws_pc EXCEPT ![h] = "crashed"]
    /\ UNCHANGED <<active_connections, ws_cid, ws_frames, pass, joined>>
    /\ UNCHANGED notreg

\* receive_json returns a frame: the user's message is broadcast.
Receive(h) ==
    /\ ws_pc[h] = "recv"
    /\ ws_frames < MaxFrames
    /\ ws_frames' = ws_frames + 1
    /\ \E ok \in BOOLEAN : StartPass(h, "bc_user", ok)
    /\ UNCHANGED ws_cid
    /\ UNCHANGED joined
    /\ UNCHANGED notreg

\* A send of the running pass returns or raises; the loop goes on.
PassStep(h) ==
    /\ ws_pc[h] \in {"bc_user", "bc_ai"}
    /\ \E ok \in BOOLEAN : RunPass(h, pass[h], ws_pc[h], ok)
    /\ UNCHANGED <<ws_cid, ws_frames>>
    /\ UNCHANGED joined
    /\ UNCHANGED notreg

\* get_response returns: the AI reply is broadcast.
ModelReturns(h) ==
    /\ ws_pc[h] = "model"
    /\ \E ok \in BOOLEAN : StartPass(h, "bc_ai", ok)
    /\ UNCHANGED <<ws_cid, ws_frames>>
    /\ UNCHANGED joined
    /\ UNCHANGED notreg

\* get_response raises: the error frame goes to the channel alone
\* (send_personal_message swallows a failed send), and the loop goes on.
ModelRaises(h) ==
    /\ ws_pc[h] = "model"
    /\ \E ok \in BOOLEAN :
          ws_pc' = [ws_pc EXCEPT ![h] = IF try_send(ok).escaped THEN "crashed" ELSE "recv"]
    /\ pass' = [pass EXCEPT ![h] = NoPass]
    /\ UNCHANGED <<active_connections, ws_cid, ws_frames>>
    /\ UNCHANGED joined
    /\ UNCHANGED notreg

\* The client of h goes away while the reply is streamed: websocket.send_json
\* in _call_lm_studio_api raises, get_response raises with it, the handler's
\* "except Exception" sends the error frame (which fails and is swallowed) and
\* the loop awaits receive_json again.
StreamFails(h) ==
    /\ ws_pc[h] = "model"
    /\ ws_pc' = [ws_pc EXCEPT ![h] =
                    IF try_send(FALSE).escaped THEN "crashed" ELSE "gone"]
    /\ pass' = [pass EXCEPT ![h] = NoPass]
    /\ UNCHANGED <<active_connections, ws_cid, ws_frames>>
    /\ UNCHANGED joined
    /\ UNCHANGED notreg

\* receive_json on the channel whose send failed raises: WebSocketDisconnect
\* when the disconnect message is still to be received, else another
\* exception (the framework has marked the connection closed), and the
\* handler catches WebSocketDisconnect alone.
DeadReceive(h, disconnect_raised) ==
    /\ ws_pc[h] = "gone"
    /\ IF disconnect_raised
       THEN LET ac2 == disconnect(active_connections, h, ws_cid[h])
            IN  /\ active_connections' = ac2
                /\ pass' = [g \in Channels |-> Observe(pass[g], g, active_connections, ac2)]
                /\ ws_pc' = [ws_pc EXCEPT ![h] = "closed"]
       ELSE /\ ws_pc' = [ws_pc EXCEPT ![h] = "crashed"]
            /\ UNCHANGED <<active_connections, pass>>
    /\ UNCHANGED <<ws_cid, ws_frames>>
    /\ UNCHANGED joined
    /\ UNCHANGED notreg

\* receive_json raises WebSocketDisconnect: disconnect(websocket, cid).
Disconnect(h) ==
    /\ ws_pc[h] = "recv"
    /\ LET ac2 == disconnect(active_connections, h, ws_cid[h])
       IN  /\ active_connections' = ac2
           /\ pass' = [g \in Channels |-> Observe(pass[g], g, active_connections, ac2)]
    /\ ws_pc' = [ws_pc EXCEPT ![h] = "closed"]
    /\ UNCHANGED <<ws_cid, ws_frames>>
    /\ UNCHANGED joined
    /\ UNCHANGED notreg

RegInit ==
    /\ active_connections = << >>
    /\ ws_pc = [h \in Channels |-> "new"]
    /\ ws_cid = [h \in Channels |-> NoneId]
    /\ ws_frames = 0
    /\ pass = [h \in Channels |-> NoPass]
    /\ joined = <<>>

RegNext ==
    \/ \E h \in Channels, cid \in RegIds : Connect(h, cid)
    \/ \E h \in Channels : AcceptFails(h)
    \/ \E h \in Channels : Receive(h)
    \/ \E h \in Channels : PassStep(h)
    \/ \E h \in Channels : ModelReturns(h)
    \/ \E h \in Channels : ModelRaises(h)
    \/ \E h \in Channels : StreamFails(h)
    \/ \E h \in Channels, disconnect_raised \in BOOLEAN : DeadReceive(h, disconnect_raised)
    \/ \E h \in Channels : Disconnect(h)

----------------------------------------------------------------------------
\* Time.  datetime.now() has sub-second resolution and isoformat() strings of
\* one length order as the instants do; a string without fraction (microsecond
\* 0) is a prefix of, hence below, every string of the same second with one.
\* So timestamps are compared as tick counts.

\* ticks per second
SubSec == 2
\* seconds per day (scaled down)
DaySecs == 1
\* the clock stops here
MaxTime == 2

\* datetime.now().replace(microsecond=0)
replace_microsecond_0(t) == (t \div SubSec) * SubSec

\* timedelta(days=days), in ticks
timedelta_days(days) == days * DaySecs * SubSec

----------------------------------------------------------------------------
\* JSONStorage.  A document is a function from its keys to records; every
\* operation loads the documents it needs, changes the loaded copies and saves
\* them, all in one synchronous call.

\* preset_id: Optional[int] = None
NoPreset == 0

EmptyDoc == << >>

\* dict with key k set to v
DictSet(d, k, v) == [x \in DOMAIN d \cup {k} |-> IF x = k THEN v ELSE d[x]]

\* del d[k]
DictDel(d, k) == [x \in DOMAIN d \ {k} |-> d[x]]

\* dict.update(data) on a record
DictUpdate(rec, data) ==
    [k \in DOMAIN rec \cup DOMAIN data |-> IF k \in DOMAIN data THEN data[k] ELSE rec[k]]

\* the three files of the store, and what a file can be found to be: a JSON
\* document, missing (FileNotFoundError) or not JSON (JSONDecodeError)
Documents == {"conversations", "messages", "presets"}
FileKinds == {"ok", "missing", "malformed"}

\* _load_json returning what the file last held, whatever has become of it
load_json_stale(kind, data) == data

\* _load_json of a file of that kind that last held data
load_json(kind, data) == IF kind \in {"missing", "malformed"} THEN EmptyDoc ELSE data

\* what a lookup returns for an id that is not stored (None)
NoRecord == << >>

\* get_conversation: {"id": conversation_id, **conversations[conversation_id]}
get_conversation(convs, cid) ==
    IF cid \in DOMAIN convs THEN DictUpdate([id |-> cid], convs[cid]) ELSE NoRecord

\* "if not record" on what a lookup returned
IsNone(r) == DOMAIN r = {}

\* get_preset: {"id": preset_id, **presets[str(preset_id)]}
get_preset(ps, preset_id) ==
    IF preset_id \in DOMAIN ps THEN DictUpdate([id |-> preset_id], ps[preset_id]) ELSE NoRecord

\* the system prompt the requests give their presets, and the one get_response
\* falls back to
PresetPrompt == "p"
DefaultPrompt == "default"

\* get_response reading preset["system_prompt"] with no "if preset": what the
\* exchange ends with when the lookup returned None
build_system_prompt_unguarded(ps, preset_id) ==
    IF preset_id \in DOMAIN ps THEN ps[preset_id].system_prompt ELSE "TypeError"

\* get_response: the content of the system message
build_system_prompt(ps, preset_id) ==
    LET preset == IF preset_id # NoPreset THEN get_preset(ps, preset_id) ELSE NoRecord
    IN  IF ~IsNone(preset) THEN preset.system_prompt ELSE DefaultPrompt

\* export_conversation: the "preset" of the exported conversation
export_preset(ps, conversation) ==
    LET preset == IF conversation.preset_id # NoPreset
                  THEN get_preset(ps, conversation.preset_id) ELSE NoRecord
    IN  IF ~IsNone(preset) THEN [id |-> preset.id, name |-> preset.name] ELSE NoRecord

\* get_preset_usage
get_preset_usage(ps, convs, preset_id) ==
    LET preset == get_preset(ps, preset_id)
    IN  [preset_id |-> preset_id,
         preset_name |-> IF ~IsNone(preset) THEN preset.name ELSE "",
         conversation_count |-> Cardinality({c \in DOMAIN convs : convs[c].preset_id = preset_id}),
         is_active |-> IF ~IsNone(preset) THEN preset.is_active ELSE FALSE]

\* GET /presets/{id}/usage: the status code
usage_answer(ps, preset_id) == IF IsNone(get_preset(ps, preset_id)) THEN 404 ELSE 200

\* create_conversation keyed by the title in place of the uuid
create_conversation_by_title(convs, new_id, title, preset_id, t) ==
    DictSet(convs, title,
            [title |-> title, preset_id |-> preset_id, created_at |-> t, updated_at |-> t])

\* create_conversation storing its defaults in place of what it was given
create_conversation_defaults(convs, new_id, title, preset_id, t) ==
    DictSet(convs, new_id,
            [title |-> "new", preset_id |-> NoPreset, created_at |-> t, updated_at |-> t])

\* create_conversation: the new record under the fresh uuid new_id
create_conversation(convs, new_id, title, preset_id, t) ==
    DictSet(convs, new_id,
            [title |-> title, preset_id |-> preset_id, created_at |-> t, updated_at |-> t])

\* update_conversation saving a document that holds the updated record alone
update_conversation_alone(convs, cid, data, t) ==
    IF cid \notin DOMAIN convs
    THEN <<FALSE, convs>>
    ELSE <<TRUE, [x \in {cid} |-> [DictUpdate(convs[cid], data) EXCEPT !.updated_at = t]]>>

\* update_conversation: <<returned value, conversations>>
update_conversation(convs, cid, data, t) ==
    IF cid \notin DOMAIN convs
    THEN <<FALSE, convs>>
    ELSE <<TRUE, [convs EXCEPT ![cid] = [DictUpdate(@, data) EXCEPT !.updated_at = t]]>>

\* delete_conversation without its "del messages[conversation_id]"
delete_conversation_keep(convs, msgs, cid) ==
    IF cid \notin DOMAIN convs
    THEN <<FALSE, convs, msgs>>
    ELSE <<TRUE, DictDel(convs, cid), msgs>>

\* list.sort(key=created_at): a stable insertion of m into the sorted list s
RECURSIVE sort_insert(_, _)
sort_insert(s, m) ==
    IF s = <<>> THEN <<m>>
    ELSE IF s[Len(s)].created_at <= m.created_at THEN Append(s, m)
    ELSE Append(sort_insert(SubSeq(s, 1, Len(s) - 1), m), s[Len(s)])

RECURSIVE sort_by_created_at(_)
sort_by_created_at(s) ==
    IF s = <<>> THEN <<>>
    ELSE sort_insert(sort_by_created_at(SubSeq(s, 1, Len(s) - 1)), s[Len(s)])

\* get_messages sorting with reverse=True
get_messages_newest_first(msgs, cid) ==
    IF cid \notin DOMAIN msgs THEN <<>>
    ELSE LET l == sort_by_created_at(msgs[cid])
         IN  [i \in 1..Len(l) |-> l[Len(l) + 1 - i]]

\* get_messages with limit=None
get_messages(msgs, cid) ==
    IF cid \notin DOMAIN msgs THEN <<>> ELSE sort_by_created_at(msgs[cid])

\* delete_conversation: <<returned value, conversations, messages>>
delete_conversation(convs, msgs, cid) ==
    IF cid \notin DOMAIN convs
    THEN <<FALSE, convs, msgs>>
    ELSE <<TRUE, DictDel(convs, cid),
           IF cid \in DOMAIN msgs THEN DictDel(msgs, cid) ELSE msgs>>

\* add_message with `messages[cid] = [new_message]` in place of the append:
\* what the conversation held before is dropped.
add_message_clobber(msgs, convs, cid, sender, content, t) ==
    IF cid \notin DOMAIN convs
    THEN <<FALSE, msgs, convs>>
    ELSE LET new_message == [id |-> 1, sender |-> sender, content |-> content,
                             created_at |-> t]
         IN  <<TRUE, DictSet(msgs, cid, <<new_message>>),
               [convs EXCEPT ![cid].updated_at = t]>>

\* add_message saving the messages document alone: updated_at is not touched
add_message_no_touch(msgs, convs, cid, sender, content, t) ==
    IF cid \notin DOMAIN convs
    THEN <<FALSE, msgs, convs>>
    ELSE LET old == IF cid \in DOMAIN msgs THEN msgs[cid] ELSE <<>>
             new_message == [id |-> Len(old) + 1, sender |-> sender,
                             content |-> content, created_at |-> t]
         IN  <<TRUE, DictSet(msgs, cid, Append(old, new_message)), convs>>

\* add_message stamping every record of the loaded conversations document
add_message_stamp_all(msgs, convs, cid, sender, content, t) ==
    IF cid \notin DOMAIN convs
    THEN <<FALSE, msgs, convs>>
    ELSE LET old == IF cid \in DOMAIN msgs THEN msgs[cid] ELSE <<>>
             new_message == [id |-> Len(old) + 1, sender |-> sender,
                             content |-> content, created_at |-> t]
         IN  <<TRUE, DictSet(msgs, cid, Append(old, new_message)),
               [c \in DOMAIN convs |-> [convs[c] EXCEPT !.updated_at = t]]>>

\* add_message with the id taken as the count so far, without the + 1.
add_message_count_id(msgs, convs, cid, sender, content, t) ==
    IF cid \notin DOMAIN convs
    THEN <<FALSE, msgs, convs>>
    ELSE LET old == IF cid \in DOMAIN msgs THEN msgs[cid] ELSE <<>>
             new_message == [id |-> Len(old), sender |-> sender,
                             content |-> content, created_at |-> t]
         IN  <<TRUE, DictSet(msgs, cid, Append(old, new_message)),
               [convs EXCEPT ![cid].updated_at = new_message.created_at]>>

\* add_message: <<returned value, messages, conversations>>
add_message(msgs, convs, cid, sender, content, t) ==
    IF cid \notin DOMAIN convs
    THEN <<FALSE, msgs, convs>>
    ELSE LET old == IF cid \in DOMAIN msgs THEN msgs[cid] ELSE <<>>
             new_message == [id |-> Len(old) + 1, sender |-> sender,
                             content |-> content, created_at |-> t]
         IN  <<TRUE, DictSet(msgs, cid, Append(old, new_message)),
               [convs EXCEPT ![cid].updated_at = new_message.created_at]>>

\* timedelta(days=7) of get_statistics
StatDays == 7

\* seven_days_ago of get_statistics
seven_days_ago(t) == replace_microsecond_0(t) - timedelta_days(StatDays)

\* get_statistics: the figures that depend on the documents
get_statistics(convs, msgs, t) ==
    [total_conversations |-> Cardinality(DOMAIN convs),
     total_messages |-> SumLens(msgs, DOMAIN msgs),
     recent_conversations_7_days |->
         Cardinality({c \in DOMAIN convs : convs[c].created_at >= seven_days_ago(t)})]

\* cutoff_date with the retention added to now in place of subtracted
cutoff_date_ahead(t, days) == replace_microsecond_0(t) + timedelta_days(days)

\* cutoff_date of cleanup_old_conversations
cutoff_date(t, days) == replace_microsecond_0(t) - timedelta_days(days)

\* to_delete of cleanup_old_conversations
to_delete(convs, days, t) ==
    {c \in DOMAIN convs : convs[c].updated_at < cutoff_date(t, days)}

\* cleanup_old_conversations: <<returned value, conversations, messages>>
cleanup_old_conversations(convs, msgs, days, t) ==
    LET del == to_delete(convs, days, t)
    IN  <<Cardinality(del),
          [c \in DOMAIN convs \ del |-> convs[c]],
          [c \in DOMAIN msgs \ del |-> msgs[c]]>>

----------------------------------------------------------------------------
\* The callers of the store.

\* the uuid4() values, in the order they are drawn
UuidSeq == <<"u1", "u2">>
ConvIds == Elems(UuidSeq)

\* the chat requests: each is one call of get_response
Flows == {"f1", "f2"}
Titles == {"T"}
PresetIds == {NoPreset, 1}
\* retention days a cleanup is asked for
CleanupDays == {0, 1}
\* a retention longer than the service has been running (days=36500)
FarDays == MaxTime + 1

\* the message a flow's client sends and the reply the model gives it
UserText(f) == IF f = "f1" THEN "q1" ELSE "q2"
ReplyText(f) == IF f = "f1" THEN "a1" ELSE "a2"

\* the k-th uuid4() value
Uuid(k) == UuidSeq[k]

\* get_response calls running on conversation c
InFlight(c) == {f \in Flows : chat[f].pc = "model" /\ chat[f].cid = c}

Log(c) == IF c \in DOMAIN appended THEN appended[c] ELSE <<>>

\* a second of a second passes
Tick ==
    /\ now < MaxTime
    /\ now' = now + 1
    /\ UNCHANGED <<conversations, messages, uuids, chat, appended, titled>>
    /\ UNCHANGED notconv

\* days the clock is followed for when whole days pass
MaxDays == 8

\* a day passes
DayPasses ==
    /\ now + timedelta_days(1) <= timedelta_days(MaxDays)
    /\ now' = now + timedelta_days(1)
    /\ UNCHANGED <<conversations, messages, uuids, chat, appended, titled>>
    /\ UNCHANGED notconv

\* POST /conversations
CreateConversation(title, preset_id) ==
    /\ uuids < Len(UuidSeq)
    /\ uuids' = uuids + 1
    /\ conversations' = create_conversation(conversations, Uuid(uuids + 1), title, preset_id, now)
    /\ titled' = DictSet(titled, Uuid(uuids + 1), title)
    /\ UNCHANGED <<messages, now, chat, appended>>
    /\ UNCHANGED notconv

\* PUT /conversations/{id}: update_conversation_title
UpdateTitle(cid, title) ==
    /\ LET r == update_conversation(conversations, cid, [title |-> title], now)
       IN  /\ conversations' = r[2]
           /\ titled' = IF r[1] THEN DictSet(titled, cid, title) ELSE titled
    /\ UNCHANGED <<messages, now, uuids, chat, appended>>
    /\ UNCHANGED notconv

\* DELETE /conversations/{id}
DeleteConversation(cid) ==
    /\ LET r == delete_conversation(conversations, messages, cid)
       IN  /\ conversations' = r[2]
           /\ messages' = r[3]
           /\ appended' = [c \in DOMAIN appended \cap DOMAIN r[2] |-> appended[c]]
           /\ titled' = [c \in DOMAIN titled \cap DOMAIN r[2] |-> titled[c]]
    /\ UNCHANGED <<now, uuids, chat>>
    /\ UNCHANGED notconv

\* POST /cleanup?days= : manual_cleanup up to its return, the store not failing
Cleanup(days) ==
    /\ cleaned = <<>>
    /\ LET r == cleanup_old_conversations(conversations, messages, days, now)
       IN  /\ conversations' = r[2]
           /\ messages' = r[3]
           /\ appended' = [c \in DOMAIN appended \cap DOMAIN r[2] |-> appended[c]]
           /\ titled' = [c \in DOMAIN titled \cap DOMAIN r[2] |-> titled[c]]
           /\ cleaned' = <<r[1]>>
    /\ UNCHANGED <<now, uuids, chat>>
    /\ UNCHANGED notclean

\* the response of POST /cleanup has been sent
CleanupReturns ==
    /\ cleaned # <<>>
    /\ cleaned' = <<>>
    /\ UNCHANGED <<convvars, now>>
    /\ UNCHANGED notclean

\* _get_or_create_conversation: <<conversation id, conversations, uuids drawn>>
get_or_create_conversation(convs, n, cid, preset_id, t) ==
    IF cid \in DOMAIN convs
    THEN IF preset_id # NoPreset /\ convs[cid].preset_id # preset_id
         THEN <<cid, update_conversation(convs, cid, [preset_id |-> preset_id], t)[2], n>>
         ELSE <<cid, convs, n>>
    ELSE <<Uuid(n + 1), create_conversation(convs, Uuid(n + 1), "new", preset_id, t), n + 1>>

\* get_response up to its await of the model call: the conversation is found or
\* created and the user's message is stored.
ChatBegin(f, cid, preset_id) ==
    /\ chat[f].pc = "idle"
    /\ cid \in DOMAIN conversations \/ uuids < Len(UuidSeq)
    /\ LET g == get_or_create_conversation(conversations, uuids, cid, preset_id, now)
           r == add_message(messages, g[2], g[1], "user", UserText(f), now)
       IN  /\ uuids' = g[3]
           /\ messages' = r[2]
           /\ conversations' = r[3]
           /\ chat' = [chat EXCEPT ![f] = [pc |-> "model", cid |-> g[1],
                                           prompt |-> build_system_prompt(presets, preset_id)]]
           /\ appended' = IF r[1]
                          THEN DictSet(appended, g[1],
                                   Append(Log(g[1]), [sender |-> "user",
                                          content |-> UserText(f), created_at |-> now]))
                          ELSE appended
           /\ titled' = IF g[1] \in DOMAIN conversations THEN titled
                        ELSE DictSet(titled, g[1], "new")
    /\ UNCHANGED now
    /\ UNCHANGED notconv

\* the model call returns: the reply is stored.
ChatReply(f) ==
    /\ chat[f].pc = "model"
    /\ LET c == chat[f].cid
           r == add_message(messages, conversations, c, "ai", ReplyText(f), now)
       IN  /\ messages' = r[2]
           /\ conversations' = r[3]
           /\ appended' = IF r[1]
                          THEN DictSet(appended, c,
                                   Append(Log(c), [sender |-> "ai",
                                          content |-> ReplyText(f), created_at |-> now]))
                          ELSE appended
    /\ chat' = [chat EXCEPT ![f].pc = "done"]
    /\ UNCHANGED <<now, uuids, titled>>
    /\ UNCHANGED notconv

\* the model call raises: get_response ends with the user's message stored.
ChatRaises(f) ==
    /\ chat[f].pc = "model"
    /\ chat' = [chat EXCEPT ![f].pc = "failed"]
    /\ UNCHANGED <<conversations, messages, now, uuids, appended, titled>>
    /\ UNCHANGED notconv

----------------------------------------------------------------------------
\* Presets: JSONStorage's preset methods and the endpoints of app/api/preset.py.

\* create_preset calls (those of init_storage included) before the model stops creating
MaxPresets == 5

\* the names init_storage gives its three default presets
DefaultPresets == <<"d1", "d2", "d3">>

\* the names a request may carry; the empty string is a valid str
PresetNames == {"A", "", "d1"}

\* max(existing_ids, default=0)
max_existing(ids) == IF ids = {} THEN 0 ELSE CHOOSE m \in ids : \A x \in ids : x <= m

\* An argument with a default is <<>> when the caller omits it and <<v>>
\* when the caller gives v; a parameters mapping is its set of <<key, value>>.
Omitted == << >>
Given(v) == <<v>>

\* the record with "is_active: bool = False" in the signature
preset_record_inactive(name, description, system_prompt, is_active, parameters, t) ==
    [name |-> name,
     description |-> description,
     system_prompt |-> system_prompt,
     is_active |-> IF is_active = Omitted THEN FALSE ELSE is_active[1],
     parameters |-> IF parameters = Omitted THEN {} ELSE parameters[1],
     created_at |-> t, updated_at |-> t]

\* the record create_preset stores: is_active: bool = True, parameters or {}
preset_record(name, description, system_prompt, is_active, parameters, t) ==
    [name |-> name,
     description |-> description,
     system_prompt |-> system_prompt,
     is_active |-> IF is_active = Omitted THEN TRUE ELSE is_active[1],
     parameters |-> IF parameters = Omitted \/ parameters[1] = {} THEN {} ELSE parameters[1],
     created_at |-> t, updated_at |-> t]

\* create_preset with all of its arguments: <<returned id, presets>>
create_preset_with(ps, name, description, system_prompt, is_active, parameters, t) ==
    LET new_id == max_existing(DOMAIN ps) + 1
    IN  <<new_id, DictSet(ps, new_id,
              preset_record(name, description, system_prompt, is_active, parameters, t))>>

\* create_preset with the id taken as the number of presets stored, plus one
create_preset_len(ps, name, t) ==
    LET new_id == Cardinality(DOMAIN ps) + 1
    IN  <<new_id, DictSet(ps, new_id,
              preset_record(name, "", PresetPrompt, Given(TRUE), Given({}), t))>>

\* create_preset as the endpoint calls it (description or "", parameters or
\* {}, is_active given) with the one system prompt: <<returned id, presets>>
create_preset(ps, name, t) ==
    create_preset_with(ps, name, "", PresetPrompt, Given(TRUE), Given({}), t)

\* the records of the presets document in the order of the file, each with
\* "id": int(preset_id); a new key is above every stored one, so the file is
\* in the order of the ids
RECURSIVE preset_list(_, _)
preset_list(ps, n) ==
    IF n = 0 THEN <<>>
    ELSE IF n \in DOMAIN ps
         THEN Append(preset_list(ps, n - 1), DictUpdate([id |-> n], ps[n]))
         ELSE preset_list(ps, n - 1)

\* get_presets: the list, sorted by created_at
get_presets(ps) == sort_by_created_at(preset_list(ps, max_existing(DOMAIN ps)))

\* update_preset storing the given fields as the whole record
update_preset_replace(ps, preset_id, data, t) ==
    IF preset_id \notin DOMAIN ps
    THEN <<FALSE, ps>>
    ELSE <<TRUE, [ps EXCEPT ![preset_id] = DictUpdate(data, [updated_at |-> t])]>>

\* update_preset: <<returned value, presets>>
update_preset(ps, preset_id, data, t) ==
    IF preset_id \notin DOMAIN ps
    THEN <<FALSE, ps>>
    ELSE <<TRUE, [ps EXCEPT ![preset_id] =
                     [DictUpdate(ps[preset_id], data) EXCEPT !.updated_at = t]]>>

\* delete_preset: <<returned value, presets>>
delete_preset(ps, preset_id) ==
    IF preset_id \notin DOMAIN ps
    THEN <<FALSE, ps>>
    ELSE <<TRUE, DictDel(ps, preset_id)>>

\* init_storage on an empty presets document: <<ids returned, presets>>
RECURSIVE init_storage(_, _, _, _)
init_storage(ps, ids, names, t) ==
    IF names = <<>>
    THEN <<ids, ps>>
    ELSE LET r == create_preset(ps, Head(names), t)
         IN  init_storage(r[2], Append(ids, r[1]), Tail(names), t)

NameTaken(ps, name, except) ==
    \E i \in DOMAIN ps : i # except /\ ps[i].name = name

\* POST /presets/ : 400 when the name is stored, else the preset is created
CreatePreset(name) ==
    /\ Len(issued) < MaxPresets
    /\ IF NameTaken(presets, name, 0)
       THEN UNCHANGED presetvars
       ELSE LET r == create_preset(presets, name, now)
            IN  /\ presets' = r[2]
                /\ issued' = Append(issued, r[1])
    /\ UNCHANGED notpreset

\* what the callers of the store's create_preset may pass
Descriptions == {"", "D"}
ActiveArgs == {Omitted, Given(TRUE), Given(FALSE)}
ParameterArgs == {Omitted, Given({}), Given({<<"temperature", 1>>})}

\* storage.create_preset(name, description, system_prompt[, is_active][, parameters])
StoreCreatePreset(name, description, system_prompt, is_active, parameters) ==
    /\ Len(issued) < MaxPresets
    /\ LET r == create_preset_with(presets, name, description, system_prompt,
                                   is_active, parameters, now)
       IN  /\ presets' = r[2]
           /\ issued' = Append(issued, r[1])
    /\ UNCHANGED notpreset

\* PUT /presets/{id} with a name: 404, 400 or the update.  The name check is
\* under "if preset_data.name and ...", which an empty name does not pass.
UpdatePreset(preset_id, name) ==
    /\ IF preset_id \notin DOMAIN presets
       THEN UNCHANGED presets
       ELSE IF name # "" /\ name # presets[preset_id].name
                /\ NameTaken(presets, name, preset_id)
            THEN UNCHANGED presets
            ELSE presets' = update_preset(presets, preset_id, [name |-> name], now)[2]
    /\ UNCHANGED issued
    /\ UNCHANGED notpreset

\* the bodies of the PUT /presets/{id} requests: preset_data.dict(exclude_unset=True)
PresetUpdates == {[name |-> "A"], [is_active |-> FALSE], [name |-> "d2", is_active |-> FALSE]}

\* the titles PUT /conversations/{id} is asked to set
Retitles == {"R"}

\* PUT /presets/{id}: 404 when the preset is not stored, 400 when another
\* preset has the name, else the store's update and 200 (500 on False)
UpdatePresetRequest(preset_id, data) ==
    /\ status = <<>>
    /\ IF IsNone(get_preset(presets, preset_id))
       THEN /\ status' = <<404, FALSE>>
            /\ UNCHANGED presets
       ELSE IF "name" \in DOMAIN data /\ data.name # "" /\ data.name # presets[preset_id].name
                /\ NameTaken(presets, data.name, preset_id)
       THEN /\ status' = <<400, FALSE>>
            /\ UNCHANGED presets
       ELSE LET r == update_preset(presets, preset_id, data, now)
            IN  /\ presets' = r[2]
                /\ status' = <<IF r[1] THEN 200 ELSE 500, FALSE>>
    /\ UNCHANGED <<issued, convvars>>
    /\ UNCHANGED <<regvars, sweepvars, cleanvars, filevars, now>>

\* conv_list.sort(key=updated_at, reverse=True): a stable insertion of m into
\* the list s sorted downwards
RECURSIVE sort_insert_desc(_, _)
sort_insert_desc(s, m) ==
    IF s = <<>> THEN <<m>>
    ELSE IF s[Len(s)].updated_at >= m.updated_at THEN Append(s, m)
    ELSE Append(sort_insert_desc(SubSeq(s, 1, Len(s) - 1), m), s[Len(s)])

\* the records of the conversations document in the order of the file (the
\* order of creation), each with its "id", sorted by updated_at downwards
RECURSIVE conv_list(_, _)
conv_list(convs, n) ==
    IF n = 0 THEN <<>>
    ELSE IF Uuid(n) \in DOMAIN convs
         THEN sort_insert_desc(conv_list(convs, n - 1), get_conversation(convs, Uuid(n)))
         ELSE conv_list(convs, n - 1)

\* limit: int = 50 of get_conversations, scaled down with the number of
\* conversations the model creates
DefaultLimit == 1

\* l[offset:offset + limit] for limit and offset that are not negative
slice(l, offset, limit) ==
    SubSeq(l, offset + 1, IF offset + limit < Len(l) THEN offset + limit ELSE Len(l))

\* get_conversations(limit, offset)
get_conversations(convs, limit, offset) ==
    slice(conv_list(convs, Len(UuidSeq)), offset, limit)

\* GET /conversations: the "total" of the answer, len(storage.get_conversations())
conversations_total(convs) == Len(get_conversations(convs, DefaultLimit, 0))

\* a file is deleted, or left cut off by a write that failed
FileLost(doc, kind) ==
    /\ files[doc] = "ok"
    /\ kind # "ok"
    /\ files' = [files EXCEPT ![doc] = kind]
    /\ UNCHANGED <<regvars, convvars, now, presetvars, sweepvars, cleanvars, respvars>>

\* POST /conversations and POST /chat while the three files are sound
SoundCreate(title) ==
    /\ \A doc \in Documents : files[doc] = "ok"
    /\ CreateConversation(title, NoPreset)

SoundChat(f, cid) ==
    /\ \A doc \in Documents : files[doc] = "ok"
    /\ ChatBegin(f, cid, NoPreset)

\* DELETE /presets/{id} : 404 or the deletion
DeletePreset(preset_id) ==
    /\ IF preset_id \notin DOMAIN presets
       THEN UNCHANGED presets
       ELSE presets' = delete_preset(presets, preset_id)[2]
    /\ UNCHANGED issued
    /\ UNCHANGED notpreset

----------------------------------------------------------------------------
\* The retention sweeper: periodic_cleanup of app/main.py over
\* cleanup_old_conversations of app/services/history_cleanup.py.

\* asyncio.sleep(24 * 60 * 60), in hours
IntervalHours == 24
\* asyncio.sleep(60 * 60), in hours
RetryHours == 1

\* where the store's cleanup may raise: nowhere, in a load, or in the save of
\* the messages document (the conversations document is saved by then)
Faults == {"none", "load", "save_messages"}

\* JSONStorage.cleanup_old_conversations when its file operations may raise
cleanup_run(convs, msgs, days, t, fault) ==
    LET r == cleanup_old_conversations(convs, msgs, days, t)
    IN  CASE fault = "none" ->
               [raised |-> FALSE, count |-> r[1], convs |-> r[2], msgs |-> r[3]]
          [] fault = "load" ->
               [raised |-> TRUE, count |-> 0, convs |-> convs, msgs |-> msgs]
          [] fault = "save_messages" ->
               [raised |-> TRUE, count |-> 0, convs |-> r[2], msgs |-> msgs]

\* history_cleanup.cleanup_old_conversations: an Exception of the store is
\* caught and logged there and 0 is returned, so none escapes to the caller
service_cleanup_old_conversations(convs, msgs, days, t, fault) ==
    LET r == cleanup_run(convs, msgs, days, t, fault)
    IN  [escaped |-> FALSE,
         count |-> IF r.raised THEN 0 ELSE r.count,
         convs |-> r.convs, msgs |-> r.msgs]

\* periodic_cleanup with the loop left after one run
periodic_cleanup_once(escaped) == [pc |-> "stopped", timer |-> 0]

\* periodic_cleanup after its await of the service: the sleep it starts
periodic_cleanup(escaped) ==
    IF escaped
    THEN [pc |-> "sleep", timer |-> RetryHours]
    ELSE [pc |-> "sleep", timer |-> IntervalHours]

\* one iteration of the loop up to its sleep; days is
\* settings.max_conversation_age_days
SweepRun(days, fault) ==
    /\ sw_pc = "run"
    /\ LET r == service_cleanup_old_conversations(conversations, messages, days, now, fault)
           a == periodic_cleanup(r.escaped)
       IN  /\ conversations' = r.convs
           /\ messages' = r.msgs
           /\ appended' = [c \in DOMAIN appended \cap DOMAIN r.convs |-> appended[c]]
           /\ titled' = [c \in DOMAIN titled \cap DOMAIN r.convs |-> titled[c]]
           /\ sw_pc' = a.pc
           /\ sw_timer' = a.timer
    /\ sw_raised' = (fault # "none")
    /\ UNCHANGED notsweep

\* an hour of the sleep passes; the sleep over, the loop runs again
SweepHour ==
    /\ sw_pc = "sleep"
    /\ sw_timer > 0
    /\ sw_timer' = sw_timer - 1
    /\ sw_pc' = IF sw_timer = 1 THEN "run" ELSE "sleep"
    /\ UNCHANGED <<sw_raised, conversations, messages, appended, titled>>
    /\ UNCHANGED notsweep

----------------------------------------------------------------------------
\* The conversation endpoints when a file write fails.  _save_json opens the
\* file with mode 'w' and dumps into it: a failure of open leaves the file as
\* it was, a failure during the dump leaves a cut-off file, which _load_json
\* reads as {} from then on (JSONDecodeError).

\* the write that fails in one store call, and what it leaves
WriteFaults == {"none", "conversations", "conversations_torn", "messages", "messages_torn"}

FailsOn(fault, doc) == fault = doc \/ fault = doc \o "_torn"

\* the document a failed _save_json leaves behind
failed_save(old, fault) ==
    IF fault \in {"conversations_torn", "messages_torn"} THEN EmptyDoc ELSE old

\* JSONStorage.create_conversation with its write failing or not
create_conversation_io(convs, new_id, title, preset_id, t, fault) ==
    IF FailsOn(fault, "conversations")
    THEN [raised |-> TRUE, convs |-> failed_save(convs, fault)]
    ELSE [raised |-> FALSE, convs |-> create_conversation(convs, new_id, title, preset_id, t)]

\* JSONStorage.update_conversation with its write failing or not
update_conversation_io(convs, cid, data, t, fault) ==
    LET r == update_conversation(convs, cid, data, t)
    IN  IF r[1] /\ FailsOn(fault, "conversations")
        THEN [raised |-> TRUE, ok |-> FALSE, convs |-> failed_save(convs, fault)]
        ELSE [raised |-> FALSE, ok |-> r[1], convs |-> r[2]]

\* JSONStorage.delete_conversation with one of its writes failing or none:
\* conversations is saved first, messages only if it holds the conversation
delete_conversation_io(convs, msgs, cid, fault) ==
    LET r == delete_conversation(convs, msgs, cid)
    IN  IF ~r[1]
        THEN [raised |-> FALSE, ok |-> FALSE, convs |-> convs, msgs |-> msgs]
        ELSE IF FailsOn(fault, "conversations")
        THEN [raised |-> TRUE, ok |-> FALSE, convs |-> failed_save(convs, fault), msgs |-> msgs]
        ELSE IF cid \in DOMAIN msgs /\ FailsOn(fault, "messages")
        THEN [raised |-> TRUE, ok |-> FALSE, convs |-> r[2], msgs |-> failed_save(msgs, fault)]
        ELSE [raised |-> FALSE, ok |-> TRUE, convs |-> r[2], msgs |-> r[3]]

\* JSONStorage.cleanup_old_conversations with one of its writes failing or none
cleanup_old_conversations_io(convs, msgs, days, t, fault) ==
    LET r == cleanup_old_conversations(convs, msgs, days, t)
    IN  IF FailsOn(fault, "conversations")
        THEN [raised |-> TRUE, count |-> 0, convs |-> failed_save(convs, fault), msgs |-> msgs]
        ELSE IF FailsOn(fault, "messages")
        THEN [raised |-> TRUE, count |-> 0, convs |-> r[2], msgs |-> failed_save(msgs, fault)]
        ELSE [raised |-> FALSE, count |-> r[1], convs |-> r[2], msgs |-> r[3]]

\* history_cleanup.delete_conversation / update_conversation_title: what the
\* service returns; an Exception of the store is logged and becomes False
service_success(r) == IF r.raised THEN FALSE ELSE r.ok

\* the endpoints over the service: 200 on True, HTTPException 404 on False
answer_by_success(success) == IF success THEN 200 ELSE 404

\* the endpoints that call the store themselves: 500 on an Exception
answer_by_raise(raised) == IF raised THEN 500 ELSE 200

\* the stored conversations' share of the records of successful writes
Surviving(ghost, convs) == [c \in DOMAIN ghost \cap DOMAIN convs |-> ghost[c]]

\* POST /conversations
CreateRequest(title, fault) ==
    /\ status = <<>>
    /\ uuids < Len(UuidSeq)
    /\ uuids' = uuids + 1
    /\ LET r == create_conversation_io(conversations, Uuid(uuids + 1), title, NoPreset, now, fault)
       IN  /\ conversations' = r.convs
           /\ appended' = Surviving(appended, r.convs)
           /\ titled' = IF r.raised THEN Surviving(titled, r.convs)
                        ELSE DictSet(titled, Uuid(uuids + 1), title)
           /\ status' = <<answer_by_raise(r.raised), r.raised>>
    /\ UNCHANGED messages
    /\ UNCHANGED notresp

\* PUT /conversations/{id}
TitleRequest(cid, title, fault) ==
    /\ status = <<>>
    /\ LET r == update_conversation_io(conversations, cid, [title |-> title], now, fault)
       IN  /\ conversations' = r.convs
           /\ appended' = Surviving(appended, r.convs)
           /\ titled' = IF service_success(r) THEN DictSet(titled, cid, title)
                        ELSE Surviving(titled, r.convs)
           /\ status' = <<answer_by_success(service_success(r)), r.raised>>
    /\ UNCHANGED <<messages, uuids>>
    /\ UNCHANGED notresp

\* DELETE /conversations/{id}
DeleteRequest(cid, fault) ==
    /\ status = <<>>
    /\ LET r == delete_conversation_io(conversations, messages, cid, fault)
       IN  /\ conversations' = r.convs
           /\ messages' = r.msgs
           /\ appended' = Surviving(appended, r.convs)
           /\ titled' = Surviving(titled, r.convs)
           /\ status' = <<answer_by_success(service_success(r)), r.raised>>
    /\ UNCHANGED uuids
    /\ UNCHANGED notresp

\* POST /cleanup?days= : the service returns 0 when the store raised, and the
\* endpoint answers 200 with the count
CleanupRequest(days, fault) ==
    /\ status = <<>>
    /\ LET r == cleanup_old_conversations_io(conversations, messages, days, now, fault)
       IN  /\ conversations' = r.convs
           /\ messages' = r.msgs
           /\ appended' = Surviving(appended, r.convs)
           /\ titled' = Surviving(titled, r.convs)
           /\ status' = <<answer_by_raise(FALSE), r.raised>>
    /\ UNCHANGED uuids
    /\ UNCHANGED notresp

\* the answer has been sent
Respond ==
    /\ status # <<>>
    /\ status' = <<>>
    /\ UNCHANGED <<conversations, messages, uuids, appended, titled>>
    /\ UNCHANGED notresp

----------------------------------------------------------------------------
\* The chat exchange of a push channel: websocket_endpoint calls get_response
\* with the conversation id of its path, and broadcasts what it returns.

\* the message of a frame of channel h, and the reply streamed for it
FrameText(h) == "q_" \o h
StreamText(h) == "a_" \o h

pushframe == <<now, presetvars, sweepvars, cleanvars, respvars, filevars>>

\* get_response up to its await of the model call, entered when the pass of
\* the user's message has returned
ExchangeBegins(h) ==
    /\ ws_cid[h] \in DOMAIN conversations \/ uuids < Len(UuidSeq)
    /\ LET g == get_or_create_conversation(conversations, uuids, ws_cid[h], NoPreset, now)
           r == add_message(messages, g[2], g[1], "user", FrameText(h), now)
       IN  /\ uuids' = g[3]
           /\ messages' = r[2]
           /\ conversations' = r[3]
           /\ chat' = [chat EXCEPT ![h] = [pc |-> "model", cid |-> g[1],
                                           prompt |-> build_system_prompt(presets, NoPreset)]]
           /\ appended' = IF r[1]
                          THEN DictSet(appended, g[1],
                                   Append(Log(g[1]), [sender |-> "user",
                                          content |-> FrameText(h), created_at |-> now]))
                          ELSE appended
           /\ titled' = IF g[1] \in DOMAIN conversations THEN titled
                        ELSE DictSet(titled, g[1], "new")

ExchangeIfCalled(h) ==
    IF ws_pc'[h] = "model" THEN ExchangeBegins(h) ELSE UNCHANGED convvars

\* receive_json returns a frame: the user's message is broadcast and, the pass
\* over, get_response is called
PushReceive(h) ==
    /\ ws_pc[h] = "recv"
    /\ ws_frames < MaxFrames
    /\ ws_frames' = ws_frames + 1
    /\ \E ok \in BOOLEAN : StartPass(h, "bc_user", ok)
    /\ ExchangeIfCalled(h)
    /\ UNCHANGED <<ws_cid, joined>>
    /\ UNCHANGED pushframe

\* a send of the running pass returns or raises
PushPassStep(h) ==
    /\ ws_pc[h] \in {"bc_user", "bc_ai"}
    /\ \E ok \in BOOLEAN : RunPass(h, pass[h], ws_pc[h], ok)
    /\ ExchangeIfCalled(h)
    /\ UNCHANGED <<ws_cid, ws_frames, joined>>
    /\ UNCHANGED pushframe

\* the model call returns: get_response stores the reply, without looking at
\* what add_message returns, and the handler broadcasts it
PushReply(h) ==
    /\ ws_pc[h] = "model"
    /\ chat[h].pc = "model"
    /\ LET c == chat[h].cid
           r == add_message(messages, conversations, c, "ai", StreamText(h), now)
       IN  /\ messages' = r[2]
           /\ conversations' = r[3]
           /\ appended' = IF r[1]
                          THEN DictSet(appended, c,
                                   Append(Log(c), [sender |-> "ai",
                                          content |-> StreamText(h), created_at |-> now]))
                          ELSE appended
    /\ chat' = [chat EXCEPT ![h].pc = "done"]
    /\ \E ok \in BOOLEAN : StartPass(h, "bc_ai", ok)
    /\ UNCHANGED <<ws_cid, ws_frames, joined, uuids, titled>>
    /\ UNCHANGED pushframe

\* the channels the broadcast of a frame of handler h would call send_json on
send_personal_message_to_group(ac, h, cid) == GroupList(ac, cid)

\* the channels send_personal_message calls send_json on: the websocket it
\* is given, whatever the registry holds
send_personal_message(ac, h, cid) == <<h>>

\* the model call raises (no model loaded, a status other than 200, a client
\* error): get_response raises after it stored the user's message, the
\* handler's "except Exception" sends the error frame with
\* send_personal_message, whose own failure is logged, and the loop awaits
\* receive_json again
PushFails(h) ==
    /\ ws_pc[h] = "model"
    /\ chat[h].pc = "model"
    /\ chat' = [chat EXCEPT ![h].pc = "failed"]
    /\ \E ok \in BOOLEAN :
          ws_pc' = [ws_pc EXCEPT ![h] = IF try_send(ok).escaped THEN "crashed" ELSE "recv"]
    /\ pass' = [pass EXCEPT ![h] =
                   [NoPass EXCEPT !.tried =
                       send_personal_message(active_connections, h, ws_cid[h])]]
    /\ UNCHANGED <<active_connections, ws_cid, ws_frames, joined>>
    /\ UNCHANGED <<conversations, messages, uuids, appended, titled>>
    /\ UNCHANGED pushframe

\* lifespan has run init_storage on empty documents and created the sweeper task
StoreInit ==
    /\ presets = init_storage(EmptyDoc, <<>>, DefaultPresets, 0)[2]
    /\ issued = init_storage(EmptyDoc, <<>>, DefaultPresets, 0)[1]
    /\ sw_pc = "run"
    /\ sw_timer = 0
    /\ sw_raised = FALSE
    /\ conversations = EmptyDoc
    /\ messages = EmptyDoc
    /\ now = 0
    /\ uuids = 0
    /\ chat = [f \in Flows \cup Channels |-> [pc |-> "idle", cid |-> NoneId, prompt |-> ""]]
    /\ appended = EmptyDoc
    /\ titled = EmptyDoc
    /\ cleaned = <<>>
    /\ status = <<>>
    /\ files = [doc \in Documents |-> "ok"]

\* The chat exchanges with the HTTP operations on conversations.
StoreNext ==
    \/ Tick
    \/ \E title \in Titles, preset_id \in PresetIds : CreateConversation(title, preset_id)
    \/ \E cid \in ConvIds, title \in Titles : UpdateTitle(cid, title)
    \/ \E cid \in ConvIds : DeleteConversation(cid)
    \/ \E f \in Flows, cid \in ConvIds \cup {NoneId}, preset_id \in PresetIds : ChatBegin(f, cid, preset_id)
    \/ \E f \in Flows : ChatReply(f)
    \/ \E f \in Flows : ChatRaises(f)

\* The retention clean-up over conversations that are created and written to.
CleanupNext ==
    \/ Tick
    \/ \E title \in Titles, preset_id \in PresetIds : CreateConversation(title, preset_id)
    \/ \E cid \in ConvIds, title \in Titles : UpdateTitle(cid, title)
    \/ \E f \in Flows, cid \in ConvIds : ChatBegin(f, cid, NoPreset)
    \/ \E f \in Flows : ChatRaises(f)
    \/ \E days \in CleanupDays : Cleanup(days)
    \/ Cleanup(FarDays)
    \/ CleanupReturns

\* The preset endpoints.
PresetNext ==
    \/ Tick
    \/ \E name \in PresetNames : CreatePreset(name)
    \/ \E preset_id \in 1..MaxPresets, name \in PresetNames : UpdatePreset(preset_id, name)
    \/ \E preset_id \in 1..MaxPresets : DeletePreset(preset_id)

\* The store's create_preset with every choice of its optional arguments.
RoundTripNext ==
    \/ \E description \in Descriptions, is_active \in ActiveArgs, parameters \in ParameterArgs :
          StoreCreatePreset("A", description, PresetPrompt, is_active, parameters)
    \/ \E preset_id \in 1..MaxPresets : DeletePreset(preset_id)

\* Conversations, messages and presets written at different times, for the lists.
ListNext ==
    \/ Tick
    \/ \E f \in Flows, cid \in ConvIds : ChatBegin(f, cid, NoPreset)
    \/ \E f \in Flows : ChatReply(f)
    \/ CreatePreset("A")
    \/ DeletePreset(1)

\* The sweeper over conversations that are created and written to.
SweeperNext ==
    \/ Tick
    \/ \E title \in Titles : CreateConversation(title, NoPreset)
    \/ \E f \in Flows, cid \in ConvIds : ChatBegin(f, cid, NoPreset)
    \/ \E f \in Flows : ChatRaises(f)
    \/ \E days \in CleanupDays, fault \in Faults : SweepRun(days, fault)
    \/ SweepHour

\* The chat exchanges over conversations bound to presets that are deleted.
DanglingNext ==
    \/ Tick
    \/ \E title \in Titles, preset_id \in PresetIds : CreateConversation(title, preset_id)
    \/ \E f \in Flows, cid \in ConvIds \cup {NoneId}, preset_id \in PresetIds : ChatBegin(f, cid, preset_id)
    \/ \E f \in Flows : ChatReply(f)
    \/ \E preset_id \in PresetIds \ {NoPreset} : DeletePreset(preset_id)

\* The update endpoints of conversations and presets, file writes not failing.
UpdateNext ==
    \/ Tick
    \/ \E title \in Titles : CreateRequest(title, "none")
    \/ \E cid \in ConvIds, title \in Retitles : TitleRequest(cid, title, "none")
    \/ \E preset_id \in {1, MaxPresets}, data \in PresetUpdates : UpdatePresetRequest(preset_id, data)
    \/ Respond

\* Conversations that are created and retitled over days, for GET /statistics.
StatNext ==
    \/ Tick
    \/ DayPasses
    \/ \E title \in Titles : CreateConversation(title, NoPreset)
    \/ \E cid \in ConvIds, title \in Titles : UpdateTitle(cid, title)

\* Documents that are written and then lost, for the read operations.
ReadNext ==
    \/ Tick
    \/ \E title \in Titles : SoundCreate(title)
    \/ \E f \in Flows, cid \in ConvIds : SoundChat(f, cid)
    \/ \E doc \in Documents, kind \in FileKinds : FileLost(doc, kind)

\* The conversation endpoints with file writes that may fail.
FaultNext ==
    \/ Tick
    \/ \E title \in Titles, fault \in WriteFaults : CreateRequest(title, fault)
    \/ \E f \in Flows, cid \in ConvIds : ChatBegin(f, cid, NoPreset)
    \/ \E f \in Flows : ChatRaises(f)
    \/ \E cid \in ConvIds, title \in Titles, fault \in WriteFaults : TitleRequest(cid, title, fault)
    \/ \E cid \in ConvIds, fault \in WriteFaults : DeleteRequest(cid, fault)
    \/ \E days \in CleanupDays, fault \in WriteFaults : CleanupRequest(days, fault)
    \/ Respond

\* The push channels with their chat exchanges, and deletions over HTTP.
PushNext ==
    \/ \E h \in Channels, cid \in RegIds : Connect(h, cid)
    \/ \E h \in Channels : PushReceive(h)
    \/ \E h \in Channels : PushPassStep(h)
    \/ \E h \in Channels : PushReply(h)
    \/ \E h \in Channels : PushFails(h)
    \/ \E h \in Channels : Disconnect(h)
    \/ \E cid \in ConvIds : DeleteConversation(cid)

Init == RegInit /\ StoreInit

SpecRegistry == Init /\ [][RegNext]_vars

\* The handlers are tasks of the event loop: a send that is awaited returns or
\* raises, and receive_json on a channel whose client is gone raises.  The
\* clients are under no obligation to connect, send or leave.
SpecChannel ==
    /\ SpecRegistry
    /\ \A h \in Channels :
          /\ WF_vars(PassStep(h))
          /\ WF_vars(\E disconnect_raised \in BOOLEAN : DeadReceive(h, disconnect_raised))

Spec == Init /\ [][StoreNext]_vars

SpecCleanup == Init /\ [][CleanupNext]_vars

SpecPreset == Init /\ [][PresetNext]_vars

SpecDangling == Init /\ [][DanglingNext]_vars

SpecUpdate == Init /\ [][UpdateNext]_vars

SpecStat == Init /\ [][StatNext]_vars

SpecRead == Init /\ [][ReadNext]_vars

SpecRoundTrip == Init /\ [][RoundTripNext]_vars

SpecList == Init /\ [][ListNext]_vars

SpecFault == Init /\ [][FaultNext]_vars

SpecPush == Init /\ [][PushNext]_vars

\* asyncio.sleep returns when its delay is over and the event loop resumes the
\* task: neither the sleep nor the run that follows it is put off for ever.
SpecSweeper ==
    /\ Init
    /\ [][SweeperNext]_vars
    /\ WF_vars(SweepHour)
    /\ WF_vars(\E days \in CleanupDays, fault \in Faults : SweepRun(days, fault))

----------------------------------------------------------------------------
\* Properties of the connection registry.

\* Handler h's broadcast pass returns in this step.
PassReturns(h) == pass'[h].done /\ ~pass[h].done

\* C1: a join or leave that interleaves with a broadcast pass takes effect
\* entirely before or after it: when the pass has returned, every channel that
\* was a member of the group from the start of the pass to the end of its loop
\* was sent the payload exactly once, and no channel was sent it twice.
C1_NoTornPass ==
    \A h \in Channels :
        pass[h].done =>
            /\ \A c \in pass[h].start \ pass[h].removed : Count(pass[h].tried, c) = 1
            /\ \A c \in Channels : Count(pass[h].tried, c) <= 1

\* C2 as stated: when a pass returns, every channel whose delivery failed is out
\* of the group, every channel whose delivery succeeded is in it, and
\* active_count is the number of channels remaining.
C2_PostStated(h) ==
    /\ \A c \in Elems(pass[h].disc) : c \notin Members(active_connections, ws_cid[h])
    /\ \A c \in pass[h].got : c \in Members(active_connections, ws_cid[h])
    /\ get_active_connections_count(active_connections, ws_cid[h])
           = Cardinality(Members(active_connections, ws_cid[h]))

C2_AsStated == [][\A h \in Channels : PassReturns(h) => C2_PostStated(h)']_vars

\* C2 (amended): when a pass returns, every channel whose delivery failed is out
\* of the group, every channel whose delivery succeeded and that was not removed
\* from the group during the pass (by its own handler's leave or by another
\* pass's clean-up) is in it, and active_count is the number of channels remaining.
C2_PostAmended(h) ==
    /\ \A c \in Elems(pass[h].disc) : c \notin Members(active_connections, ws_cid[h])
    /\ \A c \in pass[h].got \ pass[h].removed :
           c \in Members(active_connections, ws_cid[h])
    /\ get_active_connections_count(active_connections, ws_cid[h])
           = Cardinality(Members(active_connections, ws_cid[h]))

C2_SelfHealing == [][\A h \in Channels : PassReturns(h) => C2_PostAmended(h)']_vars

\* A pass has returned with one delivery failed and one succeeded.
C2_Witness ==
    \E h \in Channels :
        /\ pass[h].done
        /\ pass[h].disc # <<>>
        /\ pass[h].got \ pass[h].removed # {}

----------------------------------------------------------------------------
\* Properties of the document store under chat exchanges.

\* get_messages before sorting: the stored list of a conversation, empty if none
Stored(c) == IF c \in DOMAIN messages THEN messages[c] ELSE <<>>

\* a stored message without its id
Entry(m) == [sender |-> m.sender, content |-> m.content, created_at |-> m.created_at]

Contents(c) == {Stored(c)[i].content : i \in 1..Len(Stored(c))}

\* position of the message with this content in the log of c (0 if none)
LogPos(c, text) ==
    IF \E i \in 1..Len(Log(c)) : Log(c)[i].content = text
    THEN CHOOSE i \in 1..Len(Log(c)) : Log(c)[i].content = text
    ELSE 0

\* Exchange g stored its user message on c between the user message and the
\* reply of exchange f: g wrote between f's first load and f's last save.
WroteBetween(f, g, c) ==
    /\ f # g
    /\ c \in DOMAIN conversations
    /\ chat[f].cid = c /\ chat[g].cid = c
    /\ chat[f].pc = "done"
    /\ LogPos(c, UserText(f)) > 0
    /\ LogPos(c, UserText(f)) < LogPos(c, UserText(g))
    /\ LogPos(c, UserText(g)) < LogPos(c, ReplyText(f))

C4_MessageIds ==
    /\ \A c \in DOMAIN messages :
          \A i \in 1..Len(messages[c]) : messages[c][i].id = i
    /\ \A c \in DOMAIN conversations :
          [i \in 1..Len(Stored(c)) |-> Stored(c)[i].id] = [i \in 1..Len(Log(c)) |-> i]

\* A conversation holding four messages while another conversation was deleted.
C4_Witness ==
    \E c \in DOMAIN messages :
        /\ Len(messages[c]) = 4
        /\ uuids = Len(UuidSeq)
        /\ Cardinality(DOMAIN conversations) = 1

\* C5: appends to one conversation are serialized: however the exchanges
\* interleave at the model call, the stored messages of a conversation are the
\* appended ones, each once and in the order appended (none lost), and no two
\* of them have the same id.
C5_SerializedAppends ==
    \A c \in DOMAIN conversations :
        /\ [i \in 1..Len(Stored(c)) |-> Entry(Stored(c)[i])] = Log(c)
        /\ \A i, j \in 1..Len(Stored(c)) :
              i # j => Stored(c)[i].id # Stored(c)[j].id

\* Two exchanges on one conversation that both awaited the model at the same
\* time and both stored their reply.
C5_Witness ==
    \E c \in DOMAIN conversations :
        /\ Len(Stored(c)) = 4
        /\ Stored(c)[1].sender = "user" /\ Stored(c)[2].sender = "user"
        /\ Stored(c)[3].sender = "ai" /\ Stored(c)[4].sender = "ai"
        /\ \A f \in Flows : chat[f].pc = "done" /\ chat[f].cid = c

----------------------------------------------------------------------------
\* Properties of the retention clean-up.

\* C6: cleanup(days=0) deletes every stored conversation whatever its
\* updated_at: afterwards both collections are empty and the returned count is
\* the number of conversations that existed.
C6_AsStated ==
    [][Cleanup(0) =>
          /\ conversations' = EmptyDoc
          /\ messages' = EmptyDoc
          /\ cleaned' = <<Cardinality(DOMAIN conversations)>>]_vars

\* C7: cleanup(retention_days) deletes exactly the conversations whose
\* updated_at is strictly less than now minus retention_days, with their
\* messages, leaves the others unchanged and returns the number deleted.
C7_Stale(days) ==
    {c \in DOMAIN conversations : conversations[c].updated_at < now - timedelta_days(days)}

C7_AsStated ==
    [][\A days \in CleanupDays :
          Cleanup(days) =>
              /\ conversations' = [c \in DOMAIN conversations \ C7_Stale(days) |-> conversations[c]]
              /\ messages' = [c \in DOMAIN messages \ C7_Stale(days) |-> messages[c]]
              /\ cleaned' = <<Cardinality(C7_Stale(days))>>]_vars

----------------------------------------------------------------------------
\* Properties of the sweeper.

\* C8: after a cleanup run in which the store raised, the sweeper sleeps the
\* back-off interval (1 hour), not the regular interval (24 hours), before its
\* next attempt.
C8_AsStated ==
    (sw_pc = "sleep" /\ sw_raised) => sw_timer <= RetryHours

\* C9: the sweeper loop never terminates: it is always running a cleanup or
\* sleeping, and whatever the outcome of a run, another run is started later
\* (the cleanup is invoked infinitely often).
C9_SweeperRunsForever ==
    /\ [](sw_pc \in {"run", "sleep"})
    /\ []<><<\E days \in CleanupDays, fault \in Faults : SweepRun(days, fault)>>_vars

\* The sweeper is about to run again after a run in which the store raised.
C9_Witness ==
    sw_pc = "run" /\ sw_raised

----------------------------------------------------------------------------
\* Properties of the presets.

\* C10: each newly created preset receives an id greater than every id
\* assigned before it: the ids create_preset returned are strictly increasing,
\* so no id is issued twice.
C10_AsStated ==
    \A i \in 1..Len(issued), j \in 1..Len(issued) :
        i < j => issued[i] < issued[j]

\* C11: no two stored presets have the same name in any state reached through
\* the preset endpoints (a create or update that would duplicate a name is
\* rejected and changes nothing).
C11_AsStated ==
    \A i \in DOMAIN presets, j \in DOMAIN presets :
        i # j => presets[i].name # presets[j].name

----------------------------------------------------------------------------
\* Properties of the conversation endpoints under write failures.

\* C12: every conversation id with an entry in the messages document exists
\* in the conversations document, also after a save failure between the two
\* document writes of one operation.
C12_AsStated ==
    DOMAIN messages \subseteq DOMAIN conversations

\* C13: an HTTP operation whose store write failed answers with 500, never
\* with success (200) and never with NotFound (404).
C13_AsStated ==
    (status # <<>> /\ status[2]) => status[1] = 500

----------------------------------------------------------------------------
\* Properties of the channel handlers.

Registered(h) ==
    \E cid \in DOMAIN active_connections : InList(h, active_connections[cid])

\* C14: when the channel disconnects while a reply is streamed to it, its
\* handler ends without an unhandled error and the channel is eventually out
\* of the registry.
C14_AsStated ==
    \A h \in Channels :
        (ws_pc[h] = "gone") ~> (ws_pc[h] = "closed" /\ ~Registered(h))

\* C15: a failed send never propagates to the caller: a handler ends with an
\* unhandled error only out of accept or receive_json, never out of one of its
\* sends, and a pass in which a send fails goes on to its end and returns.
C15_SendNeverPropagates ==
    [][\A h \in Channels :
          /\ ws_pc'[h] = "crashed" => ws_pc[h] \in {"new", "gone", "crashed"}
          /\ (ws_pc[h] \in {"bc_user", "bc_ai"} /\ ws_pc'[h] # ws_pc[h])
                => (ws_pc'[h] = AfterPass(ws_pc[h]) /\ pass'[h].done)]_vars

\* A pass has returned in which every delivery failed, and a unicast of the
\* error frame has returned too.
C15_Witness ==
    \E h \in Channels :
        /\ pass[h].done
        /\ Len(pass[h].tried) = Cardinality(Channels)
        /\ pass[h].got = {}
        /\ \E g \in Channels : g # h /\ ws_pc[g] = "recv" /\ ws_frames = MaxFrames

\* the channels of S in the order in which they joined
JoinOrder(S) == SelectSeq(joined, LAMBDA c : c \in S)

\* C16: a broadcast pass during which the group's list was not changed has
\* attempted delivery to each channel of the group exactly once, in the order
\* in which the channels joined, the channels after a failed delivery included.
C16_RegistrationOrder ==
    \A h \in Channels :
        (pass[h].done /\ ~pass[h].changed) =>
            /\ pass[h].tried = pass[h].order
            /\ pass[h].order = JoinOrder(pass[h].start)

\* A pass over two channels, undisturbed, whose first delivery failed and whose
\* second succeeded.
C16_Witness ==
    \E h \in Channels :
        /\ pass[h].done /\ ~pass[h].changed
        /\ Len(pass[h].tried) = 2
        /\ pass[h].disc = <<pass[h].tried[1]>>
        /\ pass[h].got = {pass[h].tried[2]}

\* C17: no conversation id maps to an empty group: the entry goes with its
\* last channel, whether a leave or a broadcast's clean-up takes it out.
C17_NoEmptyGroup ==
    \A cid \in DOMAIN active_connections : active_connections[cid] # <<>>

\* One group has lost its last channel to a leave and another to the clean-up
\* of a broadcast, and the registry has no entry left.
C17_Witness ==
    /\ active_connections = << >>
    /\ \E h \in Channels, g \in Channels :
          /\ ws_pc[h] = "closed"
          /\ g # h /\ pass[g].done /\ InList(g, pass[g].disc)

\* C18: a channel is listed in the group of C only if it joined C after its
\* handshake was accepted and has not left since: a channel is listed under
\* the id it connected with alone, a channel enters a group only by its own
\* join, into that group and no other, so once it has left or been removed it
\* stays out, and a join whose handshake fails leaves the registry unchanged.
C18_ListedIn(h, cid) == h \in Members(active_connections, cid)

C18_ExplicitMembership ==
    /\ [](\A h \in Channels, cid \in RegIds :
             C18_ListedIn(h, cid) =>
                 /\ ws_cid[h] = cid
                 /\ InList(h, joined)
                 /\ ws_pc[h] \notin {"new", "closed"})
    /\ [][/\ \A h \in Channels, cid \in RegIds :
                (C18_ListedIn(h, cid)' /\ ~C18_ListedIn(h, cid)) =>
                    /\ ws_pc[h] = "new" /\ ws_pc'[h] = "recv"
                    /\ ws_cid'[h] = cid
                    /\ \A g \in Channels \ {h}, d \in RegIds :
                          C18_ListedIn(g, d)' = C18_ListedIn(g, d)
          /\ \A h \in Channels :
                (ws_pc[h] = "new" /\ ws_pc'[h] = "crashed") =>
                    active_connections' = active_connections]_vars

\* The two channels are in two groups, each in the one it joined.
C18_Witness ==
    \E h \in Channels, g \in Channels :
        /\ h # g
        /\ DOMAIN active_connections = RegIds
        /\ active_connections[ws_cid[h]] = <<h>>
        /\ active_connections[ws_cid[g]] = <<g>>

----------------------------------------------------------------------------
\* Properties of the chat exchange of a push channel.

\* C19: for every chat exchange received on a push channel, the AI reply is in
\* the Document Store when its push starts, and when the push has returned the
\* reply was sent to every channel that was subscribed for the time of the push.
C19_AsStated ==
    /\ [][\A h \in Channels :
             PushReply(h) =>
                 /\ chat[h].cid \in DOMAIN messages'
                 /\ \E i \in 1..Len(messages'[chat[h].cid]) :
                       /\ messages'[chat[h].cid][i].sender = "ai"
                       /\ messages'[chat[h].cid][i].content = StreamText(h)]_vars
    /\ [](\A h \in Channels :
             (ws_pc[h] = "recv" /\ pass[h].done) =>
                 \A c \in pass[h].start \ pass[h].removed : InList(c, pass[h].tried))

----------------------------------------------------------------------------
\* The end-to-end scenario.

\* conversation c has had the exchange f and no other
C20_OneExchange(c, f) ==
    /\ chat[f].cid = c /\ chat[f].pc = "done"
    /\ \A g \in Flows \ {f} : chat[g].cid # c

\* C20: after one completed chat exchange on a stored conversation its
\* messages are exactly the user's message and the model's reply, in that
\* order, stamped in that order after the creation, and updated_at is the
\* stamp of the reply or later; every append sets updated_at to the stamp of
\* the appended message, and updated_at never decreases.
C20_EndToEnd ==
    /\ [](\A c \in DOMAIN conversations, f \in Flows :
             C20_OneExchange(c, f) =>
                 /\ Len(Stored(c)) = 2
                 /\ Stored(c)[1].sender = "user" /\ Stored(c)[1].content = UserText(f)
                 /\ Stored(c)[2].sender = "ai" /\ Stored(c)[2].content = ReplyText(f)
                 /\ conversations[c].created_at <= Stored(c)[1].created_at
                 /\ Stored(c)[1].created_at <= Stored(c)[2].created_at
                 /\ Stored(c)[2].created_at <= conversations[c].updated_at)
    /\ [][\A c \in DOMAIN conversations \cap DOMAIN conversations' :
             /\ conversations'[c].updated_at >= conversations[c].updated_at
             /\ Len(Stored(c)') > Len(Stored(c)) =>
                   conversations'[c].updated_at
                      = Stored(c)'[Len(Stored(c)')].created_at]_vars

\* A conversation created with title "T" and preset 1 has had one exchange,
\* and its updated_at has advanced twice.
C20_Witness ==
    \E c \in DOMAIN conversations, f \in Flows :
        /\ C20_OneExchange(c, f)
        /\ conversations[c].title = "T" /\ conversations[c].preset_id = 1
        /\ Len(Stored(c)) = 2
        /\ conversations[c].created_at < Stored(c)[1].created_at
        /\ Stored(c)[1].created_at < Stored(c)[2].created_at
        /\ conversations[c].updated_at = Stored(c)[2].created_at

----------------------------------------------------------------------------
\* The contracts of the store's operations.

\* C21: an append that succeeds sets the conversation's updated_at to the
\* created_at of the appended message and changes no other conversation; an
\* append to a conversation that is not stored returns False (nothing is
\* logged as appended) and leaves both documents as they were.
C21_AddMessageFrame ==
    [][/\ \A c \in DOMAIN messages' :
             Len(Stored(c)') > Len(Stored(c)) =>
                 /\ c \in DOMAIN conversations'
                 /\ conversations'[c].updated_at
                       = Stored(c)'[Len(Stored(c)')].created_at
                 /\ \A d \in DOMAIN conversations \ {c} :
                        d \in DOMAIN conversations' /\ conversations'[d] = conversations[d]
       /\ \A f \in Flows :
             (chat[f].pc = "model" /\ chat'[f].pc = "done"
                 /\ chat[f].cid \notin DOMAIN conversations) =>
                 /\ messages' = messages
                 /\ conversations' = conversations
                 /\ appended' = appended]_vars

\* An append has succeeded on a conversation after its creation, and the
\* reply of an exchange whose conversation was deleted has been refused.
C21_Witness ==
    /\ \E f \in Flows : chat[f].pc = "done" /\ chat[f].cid \notin DOMAIN conversations
    /\ \E c \in DOMAIN conversations :
          /\ Len(Stored(c)) >= 1
          /\ conversations[c].updated_at = Stored(c)[Len(Stored(c))].created_at
          /\ conversations[c].updated_at > conversations[c].created_at

\* C22: a delete of a stored conversation whose writes succeed removes the
\* conversation and its messages, get_messages on its id then returns the
\* empty list, and the other conversations and their messages are as before;
\* a delete of an id that is not stored returns False without raising and
\* leaves both documents as they were.
C22_DeleteCascades ==
    [][\A cid \in ConvIds, fault \in WriteFaults :
          (DeleteRequest(cid, fault)
              /\ ~delete_conversation_io(conversations, messages, cid, fault).raised) =>
              IF cid \in DOMAIN conversations
              THEN /\ status' = <<200, FALSE>>
                   /\ cid \notin DOMAIN conversations'
                   /\ get_messages(messages', cid) = <<>>
                   /\ \A d \in DOMAIN conversations \ {cid} :
                          d \in DOMAIN conversations' /\ conversations'[d] = conversations[d]
                   /\ \A d \in DOMAIN messages \ {cid} :
                          d \in DOMAIN messages' /\ messages'[d] = messages[d]
              ELSE /\ status' = <<404, FALSE>>
                   /\ conversations' = conversations
                   /\ messages' = messages]_vars

\* Before any conversation can be stale, a conversation that had a message is
\* gone with its messages, and another one still holds its own.
C22_Witness ==
    /\ status = <<200, FALSE>>
    /\ now = 0
    /\ \E f \in Flows :
          /\ chat[f].pc # "idle"
          /\ chat[f].cid \notin DOMAIN conversations
          /\ get_messages(messages, chat[f].cid) = <<>>
    /\ \E c \in DOMAIN conversations : Len(get_messages(messages, c)) = 1

\* the ids the creations so far were given
C23_Issued == {Uuid(k) : k \in 1..uuids}

\* C23: every stored conversation is read back under the id it was created
\* with, which is one of the ids issued; a creation is given an id that no
\* creation before it was given and stores nothing under any other new id;
\* and a conversation that stays stored keeps its id and its created_at.
C23_IdsUniqueImmutable ==
    /\ [](\A c \in DOMAIN conversations :
             c \in C23_Issued /\ get_conversation(conversations, c).id = c)
    /\ [][/\ uuids' # uuids =>
               /\ uuids' = uuids + 1
               /\ Uuid(uuids') \notin C23_Issued
               /\ Uuid(uuids') \notin DOMAIN conversations
               /\ DOMAIN conversations' \subseteq DOMAIN conversations \cup {Uuid(uuids')}
          /\ uuids' = uuids => DOMAIN conversations' \subseteq DOMAIN conversations
          /\ \A c \in DOMAIN conversations \cap DOMAIN conversations' :
               /\ get_conversation(conversations', c).id = get_conversation(conversations, c).id
               /\ conversations'[c].created_at = conversations[c].created_at]_vars

\* Two conversations are stored, one of them written to after its creation.
C23_Witness ==
    /\ Cardinality(DOMAIN conversations) = 2
    /\ \A c \in DOMAIN conversations : get_conversation(conversations, c).id = c
    /\ \E c \in DOMAIN conversations :
          /\ conversations[c].updated_at > conversations[c].created_at
          /\ Stored(c) # <<>>

\* C24: the presets listed have pairwise distinct ids, one per stored preset,
\* and a creation returns 1 + the largest id stored at that moment (1 when
\* none is stored) and stores the new preset under it, next to the others.
C24_PresetIds ==
    /\ [](LET l == get_presets(presets)
          IN  /\ Len(l) = Cardinality(DOMAIN presets)
              /\ \A i, j \in 1..Len(l) : i # j => l[i].id # l[j].id)
    /\ [][Len(issued') > Len(issued) =>
             LET new_id == issued'[Len(issued')]
             IN  /\ new_id = IF DOMAIN presets = {} THEN 1
                             ELSE 1 + max_existing(DOMAIN presets)
                 /\ DOMAIN presets' = DOMAIN presets \cup {new_id}
                 /\ \A i \in DOMAIN presets : presets'[i] = presets[i]]_vars

\* A creation on the empty document was given the id 1, and the preset
\* created last stands above a gap left by a deletion.
C24_Witness ==
    /\ \E k \in 4..Len(issued) : issued[k] = 1
    /\ issued[Len(issued)] \in DOMAIN presets
    /\ \E i \in 1..issued[Len(issued)] : i \notin DOMAIN presets

\* the stored conversations bound to a preset that is not stored
C25_Dangling == {c \in DOMAIN conversations :
                    conversations[c].preset_id # NoPreset
                    /\ conversations[c].preset_id \notin DOMAIN presets}

\* C25: a deletion of a preset takes that one record out of the presets
\* document and leaves the conversations and messages documents as they were,
\* the preset_id of the conversations bound to it included; from then on an
\* exchange asking for that preset runs with the default system prompt, the
\* export of a conversation bound to it has no preset, and the store's usage
\* figures for it have an empty name and is_active false (the usage endpoint
\* answers 404): no consumer raises.
C25_DeleteDoesNotCascade ==
    /\ [](\A c \in C25_Dangling :
             LET p == conversations[c].preset_id
             IN  /\ IsNone(export_preset(presets, get_conversation(conversations, c)))
                 /\ get_preset_usage(presets, conversations, p).preset_name = ""
                 /\ ~get_preset_usage(presets, conversations, p).is_active
                 /\ get_preset_usage(presets, conversations, p).conversation_count >= 1
                 /\ usage_answer(presets, p) = 404)
    /\ [][/\ presets' # presets =>
               /\ conversations' = conversations
               /\ messages' = messages
               /\ \E p \in DOMAIN presets :
                     presets' = [i \in DOMAIN presets \ {p} |-> presets[i]]
          /\ \A f \in Flows, cid \in ConvIds \cup {NoneId}, preset_id \in PresetIds :
               (ChatBegin(f, cid, preset_id) /\ preset_id \notin DOMAIN presets) =>
                   /\ chat'[f].pc = "model"
                   /\ chat'[f].prompt = DefaultPrompt]_vars

\* Preset 1 is deleted, and the one exchange on a conversation that it
\* created bound to preset 1 has run to its end with the default prompt.
C25_Witness ==
    \E c \in C25_Dangling, f \in Flows :
        /\ C20_OneExchange(c, f)
        /\ chat[f].prompt = DefaultPrompt
        /\ conversations[c].title = "new"
        /\ Len(Stored(c)) = 2

\* record rec with the fields of data merged in and updated_at set to t
C26_Merged(rec, data, t) ==
    [k \in DOMAIN rec \cup DOMAIN data |->
        IF k = "updated_at" THEN t ELSE IF k \in DOMAIN data THEN data[k] ELSE rec[k]]

\* C26: an update of a stored conversation or preset leaves the record with
\* the given fields set as given, updated_at set to the time of the call and
\* every other field as it was, and leaves every other record as it was; an
\* update of an id that is not stored is answered as not found, without an
\* error, and leaves the document as it was.
C26_UpdateFrame ==
    [][/\ \A cid \in ConvIds, title \in Retitles :
             TitleRequest(cid, title, "none") =>
                 IF cid \in DOMAIN conversations
                 THEN /\ status' = <<200, FALSE>>
                      /\ DOMAIN conversations' = DOMAIN conversations
                      /\ conversations'[cid]
                            = C26_Merged(conversations[cid], [title |-> title], now)
                      /\ \A d \in DOMAIN conversations \ {cid} :
                             conversations'[d] = conversations[d]
                      /\ messages' = messages /\ presets' = presets
                 ELSE /\ status' = <<404, FALSE>>
                      /\ conversations' = conversations
                      /\ messages' = messages /\ presets' = presets
       /\ \A preset_id \in {1, MaxPresets}, data \in PresetUpdates :
             (UpdatePresetRequest(preset_id, data) /\ status'[1] # 400) =>
                 IF preset_id \in DOMAIN presets
                 THEN /\ status' = <<200, FALSE>>
                      /\ DOMAIN presets' = DOMAIN presets
                      /\ presets'[preset_id] = C26_Merged(presets[preset_id], data, now)
                      /\ \A i \in DOMAIN presets \ {preset_id} : presets'[i] = presets[i]
                      /\ conversations' = conversations
                 ELSE /\ status' = <<404, FALSE>>
                      /\ presets' = presets
                      /\ conversations' = conversations]_vars

\* A conversation was retitled and preset 1 renamed and switched off, both
\* after their creation, next to records that were never updated.
C26_Witness ==
    /\ \E c, d \in DOMAIN conversations :
          /\ conversations[c].title = "R"
          /\ conversations[c].updated_at > conversations[c].created_at
          /\ conversations[d].title = "T"
    /\ presets[1].name = "A" /\ ~presets[1].is_active
    /\ presets[1].updated_at > presets[1].created_at
    /\ presets[2].name = "d2" /\ presets[2].is_active

\* C27: the last-7-days figure of statistics() is the number of stored
\* conversations whose updated_at is in the 7 days before now.
C27_AsStated ==
    get_statistics(conversations, messages, now).recent_conversations_7_days
        = Cardinality({c \in DOMAIN conversations :
                          conversations[c].updated_at >= seven_days_ago(now)})

\* what the read operations load
C28_Loaded(doc, data) == load_json(files[doc], data)

C29_BroadcastToNoGroup ==
    [][\A h \in Channels :
          ws_cid[h] \notin DOMAIN active_connections =>
              /\ Receive(h) =>
                    /\ active_connections' = active_connections
                    /\ pass'[h] = NoPass
                    /\ ws_pc'[h] = "model"
              /\ ModelReturns(h) =>
                    /\ active_connections' = active_connections
                    /\ pass'[h] = NoPass
                    /\ ws_pc'[h] = "recv"]_vars

\* A frame was received on a channel whose conversation had no group: its
\* broadcast sent nothing and get_response has been called.
C29_Witness ==
    \E h \in Channels :
        /\ ws_pc[h] = "model"
        /\ pass[h] = NoPass
        /\ ws_cid[h] \notin DOMAIN active_connections

\* C30: the record read back right after a creation has the id returned, the
\* title and preset_id given, and created_at equal to updated_at (the time
\* of the call).
C30_CreateThenGet ==
    [][\A title \in Titles, preset_id \in PresetIds :
          CreateConversation(title, preset_id) =>
              LET r == get_conversation(conversations', Uuid(uuids'))
              IN  /\ ~IsNone(r)
                  /\ r.id = Uuid(uuids')
                  /\ r.title = title
                  /\ r.preset_id = preset_id
                  /\ r.created_at = r.updated_at
                  /\ r.created_at = now]_vars

\* A conversation created with title "T" and preset 1 after the clock has
\* moved, before anything was written to it.
C30_Witness ==
    \E c \in DOMAIN conversations :
        /\ now > 0
        /\ get_conversation(conversations, c)
              = [id |-> c, title |-> "T", preset_id |-> 1,
                 created_at |-> now, updated_at |-> now]
        /\ Stored(c) = <<>>

----------------------------------------------------------------------------
\* Further contracts, and the push channel's exchange.

\* C31: a clean-up with a retention that reaches back before every stored
\* timestamp deletes no conversation and no message and returns 0.
C31_FarCleanupDeletesNone ==
    [][Cleanup(FarDays) =>
          /\ conversations' = conversations
          /\ messages' = messages
          /\ cleaned' = <<0>>]_vars

\* A clean-up has returned 0 with a conversation stored that a clean-up with
\* days=0 would have deleted, messages and all.
C31_Witness ==
    /\ cleaned = <<0>>
    /\ \E c \in to_delete(conversations, 0, now) : Stored(c) # <<>>

\* C32: the preset read back under the id a creation returned has the name,
\* description and system_prompt given, is_active true when it was omitted
\* (else as given) and parameters the empty mapping when they were omitted
\* (else as given).
C32_PresetRoundTrip ==
    [][\A description \in Descriptions, is_active \in ActiveArgs, parameters \in ParameterArgs :
          StoreCreatePreset("A", description, PresetPrompt, is_active, parameters) =>
              LET r == get_preset(presets', issued'[Len(issued')])
              IN  /\ ~IsNone(r)
                  /\ r.id = issued'[Len(issued')]
                  /\ r.name = "A"
                  /\ r.description = description
                  /\ r.system_prompt = PresetPrompt
                  /\ r.is_active = (IF is_active = Omitted THEN TRUE ELSE is_active[1])
                  /\ r.parameters = (IF parameters = Omitted THEN {} ELSE parameters[1])]_vars

\* Presets created with both optional arguments omitted hold the defaults,
\* next to one created switched off with a parameter.
C32_Witness ==
    \E i, j \in DOMAIN presets :
        /\ i > Len(DefaultPresets) /\ j > Len(DefaultPresets)
        /\ get_preset(presets, i).is_active
        /\ get_preset(presets, i).parameters = {}
        /\ get_preset(presets, i).description = "D"
        /\ ~get_preset(presets, j).is_active
        /\ get_preset(presets, j).parameters = {<<"temperature", 1>>}

\* the limits and offsets a list of conversations is asked with
C33_Windows == 0..(Len(UuidSeq) + 1)

\* C33: the list of conversations holds each stored conversation once, by
\* updated_at downwards, and a request with a limit and an offset gets the
\* entries offset .. offset + limit - 1 of it; the list of presets holds each
\* stored preset once, by created_at upwards; the messages of a conversation
\* are listed each once, by created_at upwards, those of one timestamp in the
\* order they were appended in (that of their ids).
C33_ListOrders ==
    /\ LET all == get_conversations(conversations, Len(UuidSeq), 0)
       IN  /\ {all[i].id : i \in 1..Len(all)} = DOMAIN conversations
           /\ Len(all) = Cardinality(DOMAIN conversations)
           /\ \A i, j \in 1..Len(all) : i < j => all[i].updated_at >= all[j].updated_at
           /\ \A limit, offset \in C33_Windows :
                 LET l == get_conversations(conversations, limit, offset)
                     n == IF Len(all) - offset < limit THEN Len(all) - offset ELSE limit
                 IN  /\ Len(l) = IF n < 0 THEN 0 ELSE n
                     /\ \A k \in 1..Len(l) : l[k] = all[offset + k]
    /\ LET l == get_presets(presets)
       IN  /\ {l[i].id : i \in 1..Len(l)} = DOMAIN presets
           /\ Len(l) = Cardinality(DOMAIN presets)
           /\ \A i, j \in 1..Len(l) : i < j => l[i].created_at <= l[j].created_at
    /\ \A c \in ConvIds :
          LET l == get_messages(messages, c)
          IN  /\ Len(l) = Len(Stored(c))
              /\ {l[i].id : i \in 1..Len(l)} = 1..Len(Stored(c))
              /\ \A i, j \in 1..Len(l) : i < j =>
                    /\ l[i].created_at <= l[j].created_at
                    /\ l[i].created_at = l[j].created_at => l[i].id < l[j].id

\* The conversation written to last was created first, so the list is not in
\* the order of the file; one conversation holds two messages of one
\* timestamp, the other two of different ones; and a preset was created
\* after the default ones.
C33_Witness ==
    /\ Cardinality(DOMAIN conversations) = 2
    /\ get_conversations(conversations, 1, 0)[1].id = Uuid(1)
    /\ conversations[Uuid(1)].updated_at > conversations[Uuid(2)].updated_at
    /\ get_conversations(conversations, 1, 1)[1].id = Uuid(2)
    /\ \E c, d \in ConvIds :
          /\ Len(get_messages(messages, c)) = 2 /\ Len(get_messages(messages, d)) = 2
          /\ get_messages(messages, c)[1].created_at = get_messages(messages, c)[2].created_at
          /\ get_messages(messages, d)[1].created_at < get_messages(messages, d)[2].created_at
    /\ \E i \in DOMAIN presets : presets[i].created_at > 0

\* C36: the total of GET /conversations is the number of conversations stored.
C36_AsStated ==
    conversations_total(conversations) = Cardinality(DOMAIN conversations)

\* the user's message of the exchange of handler h is listed under conversation c
C34_UserMessageUnder(msgs, h, c) ==
    \E i \in 1..Len(get_messages(msgs, c)) :
        /\ get_messages(msgs, c)[i].sender = "user"
        /\ get_messages(msgs, c)[i].content = FrameText(h)

\* C34: when get_response is entered for a frame of the push channel opened
\* for conversation C, the user's message is stored under C, and when the
\* model call has returned the reply is stored under C; no conversation
\* other than C is created or written to by either step, whether or not C
\* was stored when the frame arrived.
C34_AsStated ==
    [][\A h \in Channels :
          /\ (ws_pc[h] # "model" /\ ws_pc'[h] = "model") =>
                /\ C34_UserMessageUnder(messages', h, ws_cid[h])
                /\ DOMAIN conversations' \subseteq DOMAIN conversations \cup {ws_cid[h]}
                /\ \A d \in DOMAIN conversations \ {ws_cid[h]} :
                      /\ d \in DOMAIN conversations'
                      /\ conversations'[d] = conversations[d]
                      /\ get_messages(messages', d) = get_messages(messages, d)
          /\ PushReply(h) =>
                /\ chat[h].cid = ws_cid[h]
                /\ \A d \in DOMAIN conversations \ {ws_cid[h]} :
                      /\ d \in DOMAIN conversations'
                      /\ conversations'[d] = conversations[d]
                      /\ get_messages(messages', d) = get_messages(messages, d)]_vars

\* C35: when the model call of the exchange of a push channel raises, the
\* user's message of the exchange is still stored under the exchange's
\* conversation if that conversation is, and nothing is appended to the
\* store; send_json is called for the error frame on the channel of the
\* handler and on no other; no channel is registered or unregistered, so the
\* handler's channel is registered after the step if it was before; and the
\* handler awaits the next frame of its channel.
C35_ModelFailure ==
    [][\A h \in Channels :
          PushFails(h) =>
              /\ messages' = messages /\ conversations' = conversations
              /\ (chat[h].cid \in DOMAIN conversations =>
                       C34_UserMessageUnder(messages', h, chat[h].cid))
              /\ pass'[h].tried = <<h>>
              /\ \A g \in Channels \ {h} : pass'[g] = pass[g] /\ ws_pc'[g] = ws_pc[g]
              /\ active_connections' = active_connections
              /\ (Registered(h) => h \in Members(active_connections', ws_cid[h]))
              /\ ws_pc'[h] = "recv"]_vars

\* The model call of w1 failed while w1 and w2 were both subscribed to the
\* conversation of the exchange: the user's message is stored without a
\* reply, the error frame went to w1 alone, and w1 is registered and awaits
\* its next frame.
C35_Witness ==
    /\ chat["w1"].pc = "failed"
    /\ ws_pc["w1"] = "recv"
    /\ pass["w1"].tried = <<"w1">>
    /\ ws_cid["w1"] = ws_cid["w2"]
    /\ Members(active_connections, ws_cid["w1"]) = {"w1", "w2"}
    /\ chat["w1"].cid \in DOMAIN messages
    /\ C34_UserMessageUnder(messages, "w1", chat["w1"].cid)
    /\ \A i \in 1..Len(messages[chat["w1"].cid]) :
          messages[chat["w1"].cid][i].sender # "ai"

====
